---------------------------- MODULE Spec2Model ----------------------------
(***************************************************************************)
(* A model of the KACO inverter client (custom_components/kaco_inverter/   *)
(* client): the field readers and frame schemas of fields.py and the       *)
(* protocol dispatcher of client.py.                                       *)
(*                                                                         *)
(* Bytes are the integers 0..255, a frame is a sequence of bytes.  The     *)
(* code's positions are 0-based; the model keeps them 0-based and goes     *)
(* through At and Slice to read a frame.                                   *)
(***************************************************************************)
EXTENDS Integers, Sequences, FiniteSets, TLC

(***************************************************************************)
(* Bytes and byte strings                                                  *)
(***************************************************************************)
NUL == 0
LF == 10
CR == 13
SP == 32
STAR == 42
PLUS == 43
MINUS == 45
DOT == 46
ZERO == 48
COLON == 58
UNDERSCORE == 95

\* Python's frame[i]
At(frame, i) == frame[i + 1]

Min(a, b) == IF a < b THEN a ELSE b
Max(a, b) == IF a > b THEN a ELSE b

\* the least and the greatest element of a non-empty set of integers
Least(set) == CHOOSE x \in set : \A y \in set : x <= y
Greatest(set) == CHOOSE x \in set : \A y \in set : x >= y

\* Python's frame[a:b] for 0 <= a: the slice is clamped to the frame.
Slice(frame, a, b) == SubSeq(frame, a + 1, Min(b, Len(frame)))

\* Python's frame[a:]
SliceFrom(frame, a) == SubSeq(frame, a + 1, Len(frame))

IsDigit(c) == c >= ZERO /\ c <= ZERO + 9

\* bytes.decode("ASCII") succeeds
IsAscii(s) == \A i \in 1..Len(s) : s[i] < 128

\* s without its leading, and without its trailing, characters of set
LStripSet(s, set) ==
    LET kept == {i \in 1..Len(s) : s[i] \notin set}
    IN  IF kept = {} THEN <<>> ELSE SubSeq(s, Least(kept), Len(s))

RStripSet(s, set) ==
    LET kept == {i \in 1..Len(s) : s[i] \notin set}
    IN  IF kept = {} THEN <<>> ELSE SubSeq(s, 1, Greatest(kept))

\* str.isspace() on the ASCII range: \t \n \v \f \r, FS GS RS US and space.
WhiteSpace == {9, 10, 11, 12, 13, 28, 29, 30, 31, 32}

\* str.lstrip() and str.strip()
LStrip(s) == LStripSet(s, WhiteSpace)
Strip(s) == RStripSet(LStripSet(s, WhiteSpace), WhiteSpace)

(***************************************************************************)
(* Values of a reading record.  An int is a TLA+ integer; a float is the   *)
(* decimal number m / 10^e with the trailing zeros of the fraction         *)
(* removed, so that two texts denote equal floats exactly when they        *)
(* normalise to the same pair (texts stay far below the 15 significant     *)
(* digits a double keeps); a str is its sequence of character codes.       *)
(***************************************************************************)
IntV(n) == [t |-> "int", n |-> n, e |-> 0, s |-> <<>>]

RECURSIVE FloatV(_, _)
FloatV(m, e) ==
    IF m = 0 THEN [t |-> "float", n |-> 0, e |-> 0, s |-> <<>>]
    ELSE IF e > 0 /\ m % 10 = 0 THEN FloatV(m \div 10, e - 1)
    ELSE [t |-> "float", n |-> m, e |-> e, s |-> <<>>]

StrV(s) == [t |-> "str", n |-> 0, e |-> 0, s |-> s]

\* AnnotatedValue(value, quantity, description)
AnnotatedValue(value, quantity, description) ==
    [t |-> "annotated", value |-> value, quantity |-> quantity,
     description |-> description]

(***************************************************************************)
(* Python's int(text) and float(text) on ASCII text.  Both strip white     *)
(* space on both sides and take an optional sign; digits may be grouped    *)
(* by single underscores.  float() also reads exponents, "inf" and "nan":  *)
(* the frames of this model hold none of the letters e, E, n, a, f in a    *)
(* numeric field, so those forms are left out.                             *)
(***************************************************************************)
\* base^k, by squaring
RECURSIVE Pow(_, _)
Pow(base, k) ==
    IF k = 0 THEN 1
    ELSE IF k % 2 = 0 THEN Pow(base * base, k \div 2)
    ELSE base * Pow(base * base, k \div 2)

\* digits with single underscores between digits
DigitRun(s) ==
    /\ s # <<>>
    /\ \A i \in 1..Len(s) :
          \/ IsDigit(s[i])
          \/ /\ s[i] = UNDERSCORE
             /\ i > 1 /\ i < Len(s)
             /\ IsDigit(s[i - 1]) /\ IsDigit(s[i + 1])

\* the number the digit values d[lo..hi] write in a base, by halves
RECURSIVE NumberOf(_, _, _, _)
NumberOf(d, lo, hi, base) ==
    IF lo > hi THEN 0
    ELSE IF lo = hi THEN d[lo]
    ELSE NumberOf(d, lo, (lo + hi) \div 2, base) * Pow(base, hi - (lo + hi) \div 2)
         + NumberOf(d, (lo + hi) \div 2 + 1, hi, base)

\* the number a digit run writes
DigitsValue(s) ==
    LET digits == SelectSeq(s, LAMBDA c : c # UNDERSCORE)
    IN  NumberOf([i \in 1..Len(digits) |-> digits[i] - ZERO], 1, Len(digits), 10)

CountDigits(s) == Cardinality({i \in 1..Len(s) : IsDigit(s[i])})

Unsigned(s) == IF s # <<>> /\ Head(s) \in {PLUS, MINUS} THEN Tail(s) ELSE s
SignOf(s) == IF s # <<>> /\ Head(s) = MINUS THEN -1 ELSE 1

\* int(text) on the stripped text: [ok, n]; ok = FALSE is Python's ValueError
IntOf(stripped) ==
    IF DigitRun(Unsigned(stripped))
    THEN [ok |-> TRUE, n |-> SignOf(stripped) * DigitsValue(Unsigned(stripped))]
    ELSE [ok |-> FALSE, n |-> 0]

\* int(text)
PyInt(text) == IntOf(Strip(text))

\* index (1-based) of the first "." of s, 0 when there is none
FirstDot(s) ==
    LET dots == {i \in 1..Len(s) : s[i] = DOT}
    IN  IF dots = {} THEN 0 ELSE Least(dots)

\* the text before and the text after the first "."
BeforeDot(s) == IF FirstDot(s) = 0 THEN s ELSE SubSeq(s, 1, FirstDot(s) - 1)
AfterDot(s) == IF FirstDot(s) = 0 THEN <<>> ELSE SubSeq(s, FirstDot(s) + 1, Len(s))

\* the float with a sign, an integer part ip and a fraction part fp
FloatOf(sign, ip, fp) ==
    IF /\ ip \o fp # <<>>
       /\ ip = <<>> \/ DigitRun(ip)
       /\ fp = <<>> \/ DigitRun(fp)
    THEN [ok |-> TRUE, v |-> FloatV(sign * DigitsValue(ip \o fp), CountDigits(fp))]
    ELSE [ok |-> FALSE, v |-> FloatV(0, 0)]

\* float(text) on the stripped text
FloatText(stripped) ==
    FloatOf(SignOf(stripped), BeforeDot(Unsigned(stripped)), AfterDot(Unsigned(stripped)))

\* float(text): [ok, v]; ok = FALSE is Python's ValueError
PyFloat(text) == FloatText(Strip(text))

(***************************************************************************)
(* Outcomes.  A field read, a parse and a client call either succeed or    *)
(* raise; exc names the exception class, cause the message's fixed part    *)
(* and detail the numbers the message reports.                             *)
(***************************************************************************)
NoError == [exc |-> "", cause |-> "", detail |-> <<>>]

ProtocolException(cause, detail) ==
    [exc |-> "ProtocolException", cause |-> cause, detail |-> detail]

OtherException(exc) == [exc |-> exc, cause |-> "", detail |-> <<>>]

\* a reading record under construction: the ordered list of its items
EmptyDict == <<>>

\* the place of key in dict, 0 when dict does not hold it
KeyIndex(dict, key) ==
    LET found == {i \in 1..Len(dict) : dict[i].key = key}
    IN  IF found = {} THEN 0 ELSE Least(found)

HasKey(dict, key) == KeyIndex(dict, key) # 0

\* dict[key] for a key the dict holds
Get(dict, key) == dict[KeyIndex(dict, key)].value

\* dict[key] = value: a new key goes last, a known key keeps its place
DictSet(dict, key, value) ==
    LET i == KeyIndex(dict, key)
    IN  IF i = 0 THEN Append(dict, [key |-> key, value |-> value])
        ELSE [dict EXCEPT ![i] = [key |-> key, value |-> value]]

Keys(dict) == [i \in 1..Len(dict) |-> dict[i].key]

\* what one field's read gives back: the new cursor and the record, or err
ReadOk(pos, dict) == [ok |-> TRUE, pos |-> pos, dict |-> dict, err |-> NoError]
ReadFail(err) == [ok |-> FALSE, pos |-> 0, dict |-> EmptyDict, err |-> err]

(***************************************************************************)
(* Fields (fields.py).  A field is a record: its kind selects the read     *)
(* method, length = NoneInt is the variable-length layout, precision =     *)
(* NoneInt is a float without a decimal-places check, and an empty         *)
(* quantity or description is Python's None.                               *)
(***************************************************************************)
NoneInt == -1

Field(kind, name, length, precision, quantity, description) ==
    [kind |-> kind, name |-> name, length |-> length, precision |-> precision,
     quantity |-> quantity, description |-> description]

_StringField(name, length) == Field("String", name, length, NoneInt, "", "")
_IntField(name, length, quantity, description) ==
    Field("Int", name, length, NoneInt, quantity, description)
_FloatField(name, length, precision, quantity, description) ==
    Field("Float", name, length, precision, quantity, description)
_CosPhiField(name) == Field("CosPhi", name, NoneInt, NoneInt, "", "")
_DurationField(name, length) == Field("Duration", name, length, NoneInt, "", "")
_StartField == Field("Start", "", NoneInt, NoneInt, "", "")
LegacyChecksumField == Field("LegacyChecksum", "", NoneInt, NoneInt, "", "")
_LegacyStopField == Field("LegacyStop", "", NoneInt, NoneInt, "", "")
_CrcAndStopField == Field("CrcAndStop", "", NoneInt, NoneInt, "", "")
_GenericPayloadField == Field("GenericPayload", "", NoneInt, NoneInt, "", "")

\* expect_min_remaining_frame_length does not raise
HasRemaining(frame, position, min_remaining_length) ==
    Len(frame) >= position + min_remaining_length

EndOfFrame == ProtocolException("Unexpected end-of-frame", <<>>)

\* _expect_char's error: the byte expected and the byte found
ExpectedChar(char, got) == ProtocolException("Expected char", <<char, got>>)

\* what a parse method gives back: the value, or err
Parsed(v) == [ok |-> TRUE, v |-> v, err |-> NoError]
NotParsed(err) == [ok |-> FALSE, v |-> IntV(0), err |-> err]

\* _StringField.parse without the lstrip of the decoded text
StringParseUnstripped(field_value_bytes) ==
    IF IsAscii(field_value_bytes)
    THEN Parsed(StrV(field_value_bytes))
    ELSE NotParsed(ProtocolException("Expected ASCII characters", <<>>))

\* _StringField.parse with strip() in the place of the last lstrip()
StringParseTrimmed(field_value_bytes) ==
    IF IsAscii(LStripSet(field_value_bytes, {NUL}))
    THEN Parsed(StrV(Strip(LStripSet(field_value_bytes, {NUL}))))
    ELSE NotParsed(ProtocolException("Expected ASCII characters", <<>>))

\* _StringField.parse
StringParse(field_value_bytes) ==
    IF IsAscii(LStripSet(field_value_bytes, {NUL}))
    THEN Parsed(StrV(LStrip(LStripSet(field_value_bytes, {NUL}))))
    ELSE NotParsed(ProtocolException("Expected ASCII characters", <<>>))

\* _IntField.parse, with r = int(field_value_string)
IntParsed(ascii, r) ==
    IF ascii /\ r.ok THEN Parsed(IntV(r.n))
    ELSE NotParsed(ProtocolException("Expected integer", <<>>))

\* _IntField.parse
IntParse(field_value_bytes) ==
    IntParsed(IsAscii(field_value_bytes), PyInt(LStrip(field_value_bytes)))

\* _FloatField.parse, with r = float(field_value_string)
FloatValue(r) ==
    IF r.ok THEN Parsed(r.v) ELSE NotParsed(ProtocolException("Expected float", <<>>))

\* _FloatField.parse with float(field_value_string) made in front of the
\* check of the decimal places
FloatParsedConvertingFirst(field_value_string, precision) ==
    IF ~PyFloat(field_value_string).ok
    THEN NotParsed(ProtocolException("Expected float", <<>>))
    ELSE IF precision # NoneInt
            /\ (\/ Len(field_value_string) < precision + 2
                \/ field_value_string[Len(field_value_string) - precision] # DOT)
    THEN NotParsed(ProtocolException("Expected decimal places", <<precision>>))
    ELSE FloatValue(PyFloat(field_value_string))

\* _FloatField.parse from field_value_string on
FloatParsed(field_value_string, precision) ==
    IF precision # NoneInt
       /\ (\/ Len(field_value_string) < precision + 2
           \/ field_value_string[Len(field_value_string) - precision] # DOT)
    THEN NotParsed(ProtocolException("Expected decimal places", <<precision>>))
    ELSE FloatValue(PyFloat(field_value_string))

\* _FloatField.parse
FloatParse(field_value_bytes, precision) ==
    IF ~IsAscii(field_value_bytes)
    THEN NotParsed(ProtocolException("Expected float", <<>>))
    ELSE FloatParsed(LStrip(field_value_bytes), precision)

\* the cos-phi mode codes c, i, o
CosPhiCodes == {99, 105, 111}

\* _CosPhiField.parse without the test of the last byte
CosPhiParseAnyCode(field_value_bytes, precision) ==
    FloatParse(SubSeq(field_value_bytes, 1, Len(field_value_bytes) - 1), precision)

\* _CosPhiField.parse
CosPhiParse(field_value_bytes, precision) ==
    IF field_value_bytes = <<>> \/ field_value_bytes[Len(field_value_bytes)] \notin CosPhiCodes
    THEN NotParsed(ProtocolException("Expected c, i or o", <<>>))
    ELSE FloatParse(SubSeq(field_value_bytes, 1, Len(field_value_bytes) - 1), precision)

\* _DurationField.parse, with the hours and the minutes read
DurationParsed(hours, minutes) ==
    IF hours.ok /\ minutes.ok THEN Parsed(IntV(60 * hours.n + minutes.n))
    ELSE NotParsed(ProtocolException("Expected duration", <<>>))

\* _DurationField.parse from field_value_string on
DurationText(field_value_string) ==
    DurationParsed(
        PyInt(SubSeq(field_value_string, 1, Len(field_value_string) - 3)),
        PyInt(SubSeq(field_value_string, Max(Len(field_value_string) - 1, 1),
                     Len(field_value_string))))

\* _DurationField.parse
DurationParse(field_value_bytes) ==
    IF Len(field_value_bytes) < 3 THEN NotParsed(OtherException("IndexError"))
    ELSE IF field_value_bytes[Len(field_value_bytes) - 2] # COLON
    THEN NotParsed(ExpectedChar(COLON, field_value_bytes[Len(field_value_bytes) - 2]))
    ELSE IF ~IsAscii(field_value_bytes)
    THEN NotParsed(ProtocolException("Expected duration", <<>>))
    ELSE DurationText(LStrip(field_value_bytes))

\* the parse method of a value field's class
Parse(field, field_value_bytes) ==
    CASE field.kind = "String" -> StringParse(field_value_bytes)
      [] field.kind = "Int" -> IntParse(field_value_bytes)
      [] field.kind = "Float" -> FloatParse(field_value_bytes, field.precision)
      [] field.kind = "CosPhi" -> CosPhiParse(field_value_bytes, field.precision)
      [] field.kind = "Duration" -> DurationParse(field_value_bytes)

\* the for/else without found_non_space: the first space after the
\* delimiter ends the field
VariableEndAtSpace(frame, position) ==
    LET ends == {end_pos \in (position + 1)..(Len(frame) - 1) : At(frame, end_pos) = SP}
    IN  IF ends = {} THEN NoneInt ELSE Least(ends)

\* the for/else of _ValueField.read: the index of the first space after the
\* first non-space byte from position on, NoneInt when the frame ends first
VariableEnd(frame, position) ==
    LET ends == {end_pos \in position..(Len(frame) - 1) :
                    /\ At(frame, end_pos) = SP
                    /\ \E i \in position..(end_pos - 1) : At(frame, i) # SP}
    IN  IF ends = {} THEN NoneInt ELSE Least(ends)

\* the value a field stores when annotate is not looked at: wrapped
\* whenever the field has both a quantity and a description
StoredAnnotated(field, field_value, annotate) ==
    IF field.description # "" /\ field.quantity # ""
    THEN AnnotatedValue(field_value, field.quantity, field.description)
    ELSE field_value

\* the value a field stores: wrapped when annotation is asked for and the
\* field has both a quantity and a description
Stored(field, field_value, annotate) ==
    IF annotate /\ field.description # "" /\ field.quantity # ""
    THEN AnnotatedValue(field_value, field.quantity, field.description)
    ELSE field_value

\* the tail of _ValueField.read, with p = self.parse(field_value_bytes)
ValueFieldStore(field, end_pos, dest_dict, annotate, p) ==
    IF p.ok
    THEN ReadOk(end_pos, DictSet(dest_dict, field.name, Stored(field, p.v, annotate)))
    ELSE ReadFail(p.err)

\* _ValueField.read from the end of the for/else or of the fixed layout on
ValueFieldAt(field, frame, position, end_pos, dest_dict, annotate) ==
    IF end_pos = NoneInt
    THEN ReadFail(ProtocolException("Expected ' ', got end-of-frame", <<>>))
    ELSE ValueFieldStore(field, end_pos, dest_dict, annotate,
                         Parse(field, Slice(frame, position + 1, end_pos)))

\* _ValueField.read
ValueFieldRead(field, frame, position, dest_dict, annotate) ==
    IF ~HasRemaining(frame, position, IF field.length = NoneInt THEN 2 ELSE field.length + 1)
    THEN ReadFail(EndOfFrame)
    ELSE IF At(frame, position) # SP
    THEN ReadFail(ExpectedChar(SP, At(frame, position)))
    ELSE ValueFieldAt(field, frame, position,
                      IF field.length = NoneInt
                      THEN VariableEnd(frame, position)
                      ELSE position + 1 + field.length,
                      dest_dict, annotate)

\* sum(frame[from:to]), by halves
RECURSIVE SumBytes(_, _, _)
SumBytes(frame, from, to) ==
    IF from >= Min(to, Len(frame)) THEN 0
    ELSE IF Min(to, Len(frame)) = from + 1 THEN At(frame, from)
    ELSE SumBytes(frame, from, (from + Min(to, Len(frame))) \div 2)
         + SumBytes(frame, (from + Min(to, Len(frame))) \div 2, to)

\* the checksum taken from the first byte of the frame on: sum(frame[0 : position + 1]) & 0xFF
LegacyChecksumFromStart(frame, position) == SumBytes(frame, 0, position + 1) % 256

\* sum(frame[1 : position + 1]) & 0xFF
LegacyChecksum(frame, position) == SumBytes(frame, 1, position + 1) % 256

\* the field without lines 208 to 214: the checksum byte is not compared
LegacyChecksumReadUnchecked(frame, position, dest_dict) ==
    IF ~HasRemaining(frame, position, 2) THEN ReadFail(EndOfFrame)
    ELSE IF At(frame, position) # SP
    THEN ReadFail(ExpectedChar(SP, At(frame, position)))
    ELSE ReadOk(position + 2, dest_dict)

\* LegacyChecksumField.read
LegacyChecksumRead(frame, position, dest_dict) ==
    IF ~HasRemaining(frame, position, 2) THEN ReadFail(EndOfFrame)
    ELSE IF At(frame, position) # SP
    THEN ReadFail(ExpectedChar(SP, At(frame, position)))
    ELSE IF LegacyChecksum(frame, position) # At(frame, position + 1)
    THEN ReadFail(ProtocolException("Expected checksum",
                    <<At(frame, position + 1), LegacyChecksum(frame, position)>>))
    ELSE ReadOk(position + 2, dest_dict)

\* _StartField.read; frame[2:position] is empty at position 0, so its
\* decode cannot fail
StartRead(frame, position, dest_dict) ==
    IF position # 0 THEN ReadFail(OtherException("AssertionError"))
    ELSE IF ~HasRemaining(frame, position, 5) THEN ReadFail(EndOfFrame)
    ELSE IF At(frame, position) # LF
    THEN ReadFail(ExpectedChar(LF, At(frame, position)))
    ELSE IF At(frame, position + 1) # STAR
    THEN ReadFail(ExpectedChar(STAR, At(frame, position + 1)))
    ELSE ReadOk(position + 5, dest_dict)

\* the field without lines 243 and 244: what follows the "\r" is not looked at
LegacyStopReadAnyLength(frame, position, dest_dict) ==
    IF ~HasRemaining(frame, position, 1) THEN ReadFail(EndOfFrame)
    ELSE IF At(frame, position) # CR
    THEN ReadFail(ExpectedChar(CR, At(frame, position)))
    ELSE ReadOk(position + 1, dest_dict)

\* _LegacyStopField.read
LegacyStopRead(frame, position, dest_dict) ==
    IF ~HasRemaining(frame, position, 1) THEN ReadFail(EndOfFrame)
    ELSE IF At(frame, position) # CR
    THEN ReadFail(ExpectedChar(CR, At(frame, position)))
    ELSE IF Len(frame) > position + 1
    THEN ReadFail(ProtocolException("Expected end-of-frame", <<>>))
    ELSE ReadOk(position + 1, dest_dict)

(***************************************************************************)
(* The legacy schemas (fields.py, 2 KACO Standard "legacy" protocol).      *)
(***************************************************************************)
FIELDS_SERIES_00_02 ==
    << _StartField,
       _IntField("status", 3, "", ""),
       _FloatField("dc_voltage", 5, 1, "V", "Generator Voltage"),
       _FloatField("dc_current", 5, 2, "A", "Generator Current"),
       _IntField("dc_power", 5, "W", "Generator Power"),
       _FloatField("ac_voltage", 5, 1, "V", "Grid Voltage"),
       _FloatField("ac_current", 5, 2, "A", "Grid- / Grid-feeding Current"),
       _IntField("ac_power", 5, "W", "Delivered (fed-in) Power"),
       _IntField("device_temperature", 3, "C", "Device Temperature"),
       _IntField("daily_yield", 6, "Wh", "Daily Yield"),
       LegacyChecksumField,
       _StringField("inverter_type", 6),
       _LegacyStopField >>

FIELDS_SERIES_000XI ==
    << _StartField,
       _IntField("status", 3, "", ""),
       _FloatField("dc_voltage", 5, 1, "V", "Generator Voltage"),
       _FloatField("dc_current", 5, 2, "A", "Generator Current"),
       _IntField("dc_power", 6, "W", "Generator Power"),
       _FloatField("ac_voltage", 5, 1, "V", "Grid Voltage"),
       _FloatField("ac_current", 5, 2, "A", "Grid- / Grid-feeding Current"),
       _IntField("ac_power", 6, "W", "Delivered (fed-in) Power"),
       _IntField("device_temperature", 2, "C", "Device Temperature"),
       _IntField("daily_yield", 6, "Wh", "Daily Yield"),
       LegacyChecksumField,
       _StringField("inverter_type", 4),
       _LegacyStopField >>

FIELDS_SERIES_XP ==
    << _StartField,
       _IntField("status", 3, "", ""),
       _FloatField("dc_voltage", 5, 1, "V", "Generator Voltage"),
       _FloatField("dc_current", 6, 2, "A", "Generator Current"),
       _IntField("dc_power", 6, "W", "Generator Power"),
       _FloatField("ac_voltage", 5, 1, "V", "Grid Voltage"),
       _FloatField("ac_current", 6, 2, "A", "Grid- / Grid-feeding Current"),
       _IntField("ac_power", 6, "W", "Delivered (fed-in) Power"),
       _IntField("device_temperature", 2, "C", "Device Temperature"),
       _IntField("daily_yield", 7, "Wh", "Daily Yield"),
       LegacyChecksumField,
       _StringField("inverter_type", 6),
       _IntField("total_yield", 9, "kWh", "Total Yield"),
       _LegacyStopField >>

(***************************************************************************)
(* The transport (the pyserial port behind self._port).  What the port     *)
(* does is an input of a call: script lists, for the call's read_until     *)
(* calls in order, what the port does then.  A reply is [fault, bytes]:    *)
(* bytes is what read_until returns (<<>> is a timeout that read nothing), *)
(* and fault names the port method that raises SerialException in the      *)
(* exchange that ends with this read ("" when none does).  ops records     *)
(* the port methods the client called, in order.  starved is set when the  *)
(* client read past the end of the script: the port then timed out.        *)
(***************************************************************************)
Reply(fault, bytes) == [fault |-> fault, bytes |-> bytes]

Timeout == Reply("", <<>>)

Port(script) == [script |-> script, next |-> 1, ops |-> <<>>, starved |-> FALSE]

Op(name, data) == [op |-> name, data |-> data]

\* what the port does next
Pending(port) ==
    IF port.next <= Len(port.script) THEN port.script[port.next] ELSE Timeout

\* the port after a call of one of its methods other than read_until
Called(port, name, data) == [port EXCEPT !.ops = Append(@, Op(name, data))]

\* the port after read_until(b"\r")
AfterRead(port) ==
    [port EXCEPT !.ops = Append(@, Op("read_until", <<CR>>)),
                 !.next = @ + 1,
                 !.starved = @ \/ port.next > Len(port.script)]

SerialPortError == ProtocolException("Serial port error", <<>>)

(***************************************************************************)
(* The generic protocol (fields.py, 3 Generic Protocol).                   *)
(***************************************************************************)
\* the bit of weight w of a xor b, in place
XorBit(a, b, w) == (((a \div w) + (b \div w)) % 2) * w

\* a ^ b on 16 bit operands
Xor(a, b) ==
    (((XorBit(a, b, 1) + XorBit(a, b, 2)) + (XorBit(a, b, 4) + XorBit(a, b, 8)))
     + ((XorBit(a, b, 16) + XorBit(a, b, 32)) + (XorBit(a, b, 64) + XorBit(a, b, 128))))
    + (((XorBit(a, b, 256) + XorBit(a, b, 512)) + (XorBit(a, b, 1024) + XorBit(a, b, 2048)))
       + ((XorBit(a, b, 4096) + XorBit(a, b, 8192)) + (XorBit(a, b, 16384) + XorBit(a, b, 32768))))

\* the reflected CRC-16 polynomial 0x8408 and the mask 0xFFFF of CRC-16/X-25
X25_POLY == 33800
X25_MASK == 65535

\* one bit of the reflected CRC
CrcBit(c) == IF c % 2 = 1 THEN Xor(c \div 2, X25_POLY) ELSE c \div 2

\* the register after the eight bits of each byte value: the lookup table
\* of the table-driven CRC, X25_TABLE[b + 1] being the eight CrcBit steps
\* on b
X25_TABLE ==
    <<0,  4489,  8978, 12955, 17956, 22445, 25910, 29887,
       35912, 40385, 44890, 48851, 51820, 56293, 59774, 63735,
        4225,   264, 13203,  8730, 22181, 18220, 30135, 25662,
       40137, 36160, 49115, 44626, 56045, 52068, 63999, 59510,
        8450, 12427,   528,  5017, 26406, 30383, 17460, 21949,
       44362, 48323, 36440, 40913, 60270, 64231, 51324, 55797,
       12675,  8202,  4753,   792, 30631, 26158, 21685, 17724,
       48587, 44098, 40665, 36688, 64495, 60006, 55549, 51572,
       16900, 21389, 24854, 28831,  1056,  5545, 10034, 14011,
       52812, 57285, 60766, 64727, 34920, 39393, 43898, 47859,
       21125, 17164, 29079, 24606,  5281,  1320, 14259,  9786,
       57037, 53060, 64991, 60502, 39145, 35168, 48123, 43634,
       25350, 29327, 16404, 20893,  9506, 13483,  1584,  6073,
       61262, 65223, 52316, 56789, 43370, 47331, 35448, 39921,
       29575, 25102, 20629, 16668, 13731,  9258,  5809,  1848,
       65487, 60998, 56541, 52564, 47595, 43106, 39673, 35696,
       33800, 38273, 42778, 46739, 49708, 54181, 57662, 61623,
        2112,  6601, 11090, 15067, 20068, 24557, 28022, 31999,
       38025, 34048, 47003, 42514, 53933, 49956, 61887, 57398,
        6337,  2376, 15315, 10842, 24293, 20332, 32247, 27774,
       42250, 46211, 34328, 38801, 58158, 62119, 49212, 53685,
       10562, 14539,  2640,  7129, 28518, 32495, 19572, 24061,
       46475, 41986, 38553, 34576, 62383, 57894, 53437, 49460,
       14787, 10314,  6865,  2904, 32743, 28270, 23797, 19836,
       50700, 55173, 58654, 62615, 32808, 37281, 41786, 45747,
       19012, 23501, 26966, 30943,  3168,  7657, 12146, 16123,
       54925, 50948, 62879, 58390, 37033, 33056, 46011, 41522,
       23237, 19276, 31191, 26718,  7393,  3432, 16371, 11898,
       59150, 63111, 50204, 54677, 41258, 45219, 33336, 37809,
       27462, 31439, 18516, 23005, 11618, 15595,  3696,  8185,
       63375, 58886, 54429, 50452, 45483, 40994, 37561, 33584,
       31687, 27214, 22741, 18780, 15843, 11370,  7921,  3960 >>

\* one byte: the low byte of the register xor the byte selects the table
\* entry, which is xored into the register shifted by eight bits
CrcByte(c, byte) == Xor(c \div 256, X25_TABLE[Xor(c % 256, byte) + 1])

\* the CRC register c after the bytes frame[from:to], by halves
RECURSIVE CrcFold(_, _, _, _)
CrcFold(frame, from, to, c) ==
    IF from >= Min(to, Len(frame)) THEN c
    ELSE IF Min(to, Len(frame)) = from + 1 THEN CrcByte(c, At(frame, from))
    ELSE LET half == CrcFold(frame, from, (from + Min(to, Len(frame))) \div 2, c)
         IN  IF half >= 0
             THEN CrcFold(frame, (from + Min(to, Len(frame))) \div 2, to, half)
             ELSE half

\* the CRC of the bytes between the start marker and the CRC field only:
\* _crc_calculator.checksum(frame[5 : position])
Crc16X25PastMarker(frame, position) ==
    Xor(CrcFold(frame, 5, position, X25_MASK), X25_MASK)

\* _crc_calculator.checksum(frame[1 : position + 1]), crc.Crc16.X25
Crc16X25(frame, position) ==
    Xor(CrcFold(frame, 1, position + 1, X25_MASK), X25_MASK)

HexValue(c) ==
    IF IsDigit(c) THEN c - ZERO
    ELSE IF c >= 65 /\ c <= 70 THEN c - 55
    ELSE IF c >= 97 /\ c <= 102 THEN c - 87
    ELSE NoneInt

HexRun(s) ==
    /\ s # <<>>
    /\ \A i \in 1..Len(s) :
          \/ HexValue(s[i]) # NoneInt
          \/ /\ s[i] = UNDERSCORE
             /\ i > 1 /\ i < Len(s)
             /\ HexValue(s[i - 1]) # NoneInt /\ HexValue(s[i + 1]) # NoneInt

HexDigitsValue(s) ==
    LET digits == SelectSeq(s, LAMBDA c : c # UNDERSCORE)
    IN  NumberOf([i \in 1..Len(digits) |-> HexValue(digits[i])], 1, Len(digits), 16)

\* a 0x or 0X in front
HasHexPrefix(s) == Len(s) >= 2 /\ s[1] = ZERO /\ s[2] \in {88, 120}

\* int(text, 16) with the sign taken off; body is the text behind the prefix
HexOf(sign, prefixed, body) ==
    IF body # <<>>
       /\ HexRun(IF prefixed /\ Head(body) = UNDERSCORE THEN Tail(body) ELSE body)
    THEN [ok |-> TRUE, n |-> sign * HexDigitsValue(body)]
    ELSE [ok |-> FALSE, n |-> 0]

HexUnsigned(sign, unsigned) ==
    HexOf(sign, HasHexPrefix(unsigned),
          IF HasHexPrefix(unsigned) THEN SubSeq(unsigned, 3, Len(unsigned)) ELSE unsigned)

HexText(stripped) == HexUnsigned(SignOf(stripped), Unsigned(stripped))

\* int(text, 16): white space stripped, an optional sign, an optional 0x
PyIntHex(text) == HexText(Strip(text))

\* the field without lines 264 to 267: the CRCs are not compared
CrcUnchecked(frame, position, dest_dict, expected_crc, actual_crc) ==
    IF At(frame, position + 5) # CR
    THEN ReadFail(ExpectedChar(CR, At(frame, position + 5)))
    ELSE IF Len(frame) > position + 6
    THEN ReadFail(ProtocolException("Expected end-of-frame", <<>>))
    ELSE ReadOk(NoneInt, dest_dict)

\* _CrcAndStopField.read from the comparison of the CRCs on; the method has
\* no return statement, so a successful read gives None as the new position
CrcChecked(frame, position, dest_dict, expected_crc, actual_crc) ==
    IF actual_crc # expected_crc
    THEN ReadFail(ProtocolException("Expected CRC", <<expected_crc, actual_crc>>))
    ELSE IF At(frame, position + 5) # CR
    THEN ReadFail(ExpectedChar(CR, At(frame, position + 5)))
    ELSE IF Len(frame) > position + 6
    THEN ReadFail(ProtocolException("Expected end-of-frame", <<>>))
    ELSE ReadOk(NoneInt, dest_dict)

\* _CrcAndStopField.read from int(crc_hex, 16) on
CrcParsed(frame, position, dest_dict, expected_crc) ==
    IF ~IsAscii(Slice(frame, position + 1, position + 5)) \/ ~expected_crc.ok
    THEN ReadFail(ProtocolException("Expected hex", <<>>))
    ELSE CrcChecked(frame, position, dest_dict, expected_crc.n, Crc16X25(frame, position))

\* _CrcAndStopField.read
CrcAndStopRead(frame, position, dest_dict) ==
    IF ~HasRemaining(frame, position, 6) THEN ReadFail(EndOfFrame)
    ELSE IF At(frame, position) # SP
    THEN ReadFail(ExpectedChar(SP, At(frame, position)))
    ELSE CrcParsed(frame, position, dest_dict,
                   PyIntHex(Slice(frame, position + 1, position + 5)))

FIELDS_SERIAL ==
    << _StartField, _StringField("serial_number", NoneInt), _CrcAndStopField >>

\* _build_mpp_fields(index); name is "dc_mppt<index>"
_build_mpp_fields(name, label) ==
    << _FloatField(name \o "_voltage", NoneInt, NoneInt, "V", "DC Voltage of " \o label),
       _FloatField(name \o "_current", NoneInt, NoneInt, "A", "DC Current of " \o label),
       _IntField(name \o "_power", NoneInt, "W", "DC Power of " \o label) >>

_DC_FIELDS ==
    << _FloatField("dc_voltage", NoneInt, NoneInt, "V", "DC Voltage"),
       _FloatField("dc_current", NoneInt, NoneInt, "A", "DC Current") >>

_AC_FIELDS ==
    << _FloatField("ac_phase1_voltage", NoneInt, NoneInt, "V", "AC Voltage of Phase 1"),
       _FloatField("ac_phase1_current", NoneInt, NoneInt, "A", "AC Current of Phase 1"),
       _FloatField("ac_phase2_voltage", NoneInt, NoneInt, "V", "AC Voltage of Phase 2"),
       _FloatField("ac_phase2_current", NoneInt, NoneInt, "A", "AC Current of Phase 2"),
       _FloatField("ac_phase3_voltage", NoneInt, NoneInt, "V", "AC Voltage of Phase 3"),
       _FloatField("ac_phase3_current", NoneInt, NoneInt, "A", "AC Current of Phase 3") >>

_COMMON_POWER_FIELDS ==
    << _IntField("dc_power", NoneInt, "W", "DC Power"),
       _IntField("ac_power", NoneInt, "W", "AC Power") >>

_COMMON_MISC_FIELDS ==
    << _CosPhiField("cos_phi"),
       _FloatField("device_temperature", NoneInt, NoneInt, "C", "Circuit Board Temperature"),
       _IntField("daily_yield", NoneInt, "Wh", "Daily Yield") >>

\* 160TR 180TR
_GENERIC_SCHMEMA_331_TYPES ==
    {
      <<49, 54, 48, 84, 82>>,
      <<49, 56, 48, 84, 82>> }

\* 30L11 30L12 35L12 37L12 40L12 46L12 50L12 30L32 40L32 50L32 65L32
\* 75L32 86L32 90L32 100L32 150L32 200L32 3X24 5X24 8X24 10X24 12X24
\* 15X24 20X24
_GENERIC_SCHMEMA_332_TYPES ==
    {
      <<51, 48, 76, 49, 49>>,
      <<51, 48, 76, 49, 50>>,
      <<51, 53, 76, 49, 50>>,
      <<51, 55, 76, 49, 50>>,
      <<52, 48, 76, 49, 50>>,
      <<52, 54, 76, 49, 50>>,
      <<53, 48, 76, 49, 50>>,
      <<51, 48, 76, 51, 50>>,
      <<52, 48, 76, 51, 50>>,
      <<53, 48, 76, 51, 50>>,
      <<54, 53, 76, 51, 50>>,
      <<55, 53, 76, 51, 50>>,
      <<56, 54, 76, 51, 50>>,
      <<57, 48, 76, 51, 50>>,
      <<49, 48, 48, 76, 51, 50>>,
      <<49, 53, 48, 76, 51, 50>>,
      <<50, 48, 48, 76, 51, 50>>,
      <<51, 88, 50, 52>>,
      <<53, 88, 50, 52>>,
      <<56, 88, 50, 52>>,
      <<49, 48, 88, 50, 52>>,
      <<49, 50, 88, 50, 52>>,
      <<49, 53, 88, 50, 52>>,
      <<50, 48, 88, 50, 52>> }

\* 375TL 390TL 400TL 480TL 600TL 720TL 29kH3P 50KH3P 50kH4 50kRPO 60kH3P
\* BG0501 BG50TL BQ50TL 92G14 110G15 137G16
_GENERIC_SCHMEMA_333_TYPES ==
    {
      <<51, 55, 53, 84, 76>>,
      <<51, 57, 48, 84, 76>>,
      <<52, 48, 48, 84, 76>>,
      <<52, 56, 48, 84, 76>>,
      <<54, 48, 48, 84, 76>>,
      <<55, 50, 48, 84, 76>>,
      <<50, 57, 107, 72, 51, 80>>,
      <<53, 48, 75, 72, 51, 80>>,
      <<53, 48, 107, 72, 52>>,
      <<53, 48, 107, 82, 80, 79>>,
      <<54, 48, 107, 72, 51, 80>>,
      <<66, 71, 48, 53, 48, 49>>,
      <<66, 71, 53, 48, 84, 76>>,
      <<66, 81, 53, 48, 84, 76>>,
      <<57, 50, 71, 49, 52>>,
      <<49, 49, 48, 71, 49, 53>>,
      <<49, 51, 55, 71, 49, 54>> }

\* 360M1 390M150kH4P 100kTR 200kTR 200kTL 250kTR250kTL 350kTL 32kH4P
\* 40kH4P
_GENERIC_SCHMEMA_334_TYPES ==
    {
      <<51, 54, 48, 77, 49>>,
      <<51, 57, 48, 77, 49, 53, 48, 107, 72, 52, 80>>,
      <<49, 48, 48, 107, 84, 82>>,
      <<50, 48, 48, 107, 84, 82>>,
      <<50, 48, 48, 107, 84, 76>>,
      <<50, 53, 48, 107, 84, 82, 50, 53, 48, 107, 84, 76>>,
      <<51, 53, 48, 107, 84, 76>>,
      <<51, 50, 107, 72, 52, 80>>,
      <<52, 48, 107, 72, 52, 80>> }

\* 87N13 92N14 100N13 105N14 110N15 125N15 125N16 137N16 150N17 155N16
\* 165N17
_GENERIC_SCHMEMA_335_TYPES ==
    {
      <<56, 55, 78, 49, 51>>,
      <<57, 50, 78, 49, 52>>,
      <<49, 48, 48, 78, 49, 51>>,
      <<49, 48, 53, 78, 49, 52>>,
      <<49, 49, 48, 78, 49, 53>>,
      <<49, 50, 53, 78, 49, 53>>,
      <<49, 50, 53, 78, 49, 54>>,
      <<49, 51, 55, 78, 49, 54>>,
      <<49, 53, 48, 78, 49, 55>>,
      <<49, 53, 53, 78, 49, 54>>,
      <<49, 54, 53, 78, 49, 55>> }

\* _resolve_subfields with the layout of section 3.3.2 for the types in
\* none of the sets
_resolve_subfields_Default(inverter_type) ==
    IF inverter_type \in _GENERIC_SCHMEMA_331_TYPES
       \/ inverter_type \in _GENERIC_SCHMEMA_333_TYPES
    THEN _build_mpp_fields("dc_mppt1", "MPPT1") \o _build_mpp_fields("dc_mppt2", "MPPT2")
         \o _build_mpp_fields("dc_mppt3", "MPPT3")
         \o _AC_FIELDS \o _COMMON_POWER_FIELDS \o _COMMON_MISC_FIELDS
    ELSE IF inverter_type \in _GENERIC_SCHMEMA_334_TYPES
    THEN _DC_FIELDS \o _AC_FIELDS \o _COMMON_POWER_FIELDS \o _COMMON_MISC_FIELDS
    ELSE _build_mpp_fields("dc_mppt1", "MPPT1") \o _build_mpp_fields("dc_mppt2", "MPPT2")
         \o _AC_FIELDS \o _COMMON_POWER_FIELDS \o _COMMON_MISC_FIELDS

\* _resolve_subfields with _COMMON_POWER_FIELDS in the layout of section
\* 3.3.5 as well
_resolve_subfields_CommonPower(inverter_type) ==
    IF inverter_type \in _GENERIC_SCHMEMA_335_TYPES
    THEN _DC_FIELDS \o _AC_FIELDS \o _COMMON_POWER_FIELDS
         \o << _FloatField("ac_frequency", NoneInt, NoneInt, "Hz", "AC Frequency") >>
         \o _COMMON_MISC_FIELDS
    ELSE _resolve_subfields_Default(inverter_type)

\* _resolve_subfields: <<>> stands for "Can not resolve field schema"
_resolve_subfields(inverter_type) ==
    IF inverter_type \in _GENERIC_SCHMEMA_331_TYPES
       \/ inverter_type \in _GENERIC_SCHMEMA_333_TYPES
    THEN _build_mpp_fields("dc_mppt1", "MPPT1") \o _build_mpp_fields("dc_mppt2", "MPPT2")
         \o _build_mpp_fields("dc_mppt3", "MPPT3")
         \o _AC_FIELDS \o _COMMON_POWER_FIELDS \o _COMMON_MISC_FIELDS
    ELSE IF inverter_type \in _GENERIC_SCHMEMA_332_TYPES
    THEN _build_mpp_fields("dc_mppt1", "MPPT1") \o _build_mpp_fields("dc_mppt2", "MPPT2")
         \o _AC_FIELDS \o _COMMON_POWER_FIELDS \o _COMMON_MISC_FIELDS
    ELSE IF inverter_type \in _GENERIC_SCHMEMA_334_TYPES
    THEN _DC_FIELDS \o _AC_FIELDS \o _COMMON_POWER_FIELDS \o _COMMON_MISC_FIELDS
    ELSE IF inverter_type \in _GENERIC_SCHMEMA_335_TYPES
    THEN _DC_FIELDS \o _AC_FIELDS
         \o << _IntField("dc_power", NoneInt, "W", "DC Power"),
               _FloatField("ac_power", NoneInt, NoneInt, "W", "AC Power"),
               _FloatField("ac_frequency", NoneInt, NoneInt, "Hz", "AC Frequency") >>
         \o _COMMON_MISC_FIELDS
    ELSE <<>>

BASE_FIELDS_GENERIC ==
    << _StartField,
       _IntField("number_of_elements", NoneInt, "", ""),
       _StringField("inverter_type", NoneInt),
       _IntField("status", NoneInt, "", ""),
       _GenericPayloadField,
       _CrcAndStopField >>

\* field.read(frame, position, dest_dict, annotate=annotate), by the class
\* of the field
RECURSIVE Read(_, _, _, _, _)

\* the loop of _GenericPayloadField.read over the subfields lo+1..hi, from
\* the read r that came before; the range is walked by halves
RECURSIVE ReadSubfields(_, _, _, _, _, _)
ReadSubfields(subfields, lo, hi, frame, r, annotate) ==
    IF ~r.ok \/ lo >= hi THEN r
    ELSE IF hi = lo + 1
    THEN Read(subfields[hi], frame, r.pos, r.dict, annotate)
    ELSE LET first == ReadSubfields(subfields, lo, (lo + hi) \div 2, frame, r, annotate)
         IN  IF first.ok
             THEN ReadSubfields(subfields, (lo + hi) \div 2, hi, frame, first, annotate)
             ELSE first

\* the field with the number of elements compared after the loop over the
\* subfields instead of before it
GenericSubfieldsReadThenCount(frame, position, dest_dict, annotate, number_of_elements, subfields) ==
    IF subfields = <<>>
    THEN ReadFail(ProtocolException("Can not resolve field schema", <<>>))
    ELSE LET r == ReadSubfields(subfields, 0, Len(subfields), frame,
                                ReadOk(position, dest_dict), annotate)
         IN  IF r.ok /\ Len(subfields) + 3 # number_of_elements
             THEN ReadFail(ProtocolException("Expected elements",
                             <<Len(subfields) + 3, number_of_elements>>))
             ELSE r

\* _GenericPayloadField.read from the resolved subfields on
GenericSubfieldsRead(frame, position, dest_dict, annotate, number_of_elements, subfields) ==
    IF subfields = <<>>
    THEN ReadFail(ProtocolException("Can not resolve field schema", <<>>))
    ELSE IF Len(subfields) + 3 # number_of_elements
    THEN ReadFail(ProtocolException("Expected elements",
                    <<Len(subfields) + 3, number_of_elements>>))
    ELSE ReadSubfields(subfields, 0, Len(subfields), frame,
                       ReadOk(position, dest_dict), annotate)

\* _GenericPayloadField.read
GenericPayloadRead(frame, position, dest_dict, annotate) ==
    IF ~HasKey(dest_dict, "number_of_elements") \/ ~HasKey(dest_dict, "inverter_type")
    THEN ReadFail(OtherException("KeyError"))
    ELSE GenericSubfieldsRead(frame, position, dest_dict, annotate,
                              Get(dest_dict, "number_of_elements").n,
                              _resolve_subfields(Get(dest_dict, "inverter_type").s))

Read(field, frame, position, dest_dict, annotate) ==
    CASE field.kind = "Start" -> StartRead(frame, position, dest_dict)
      [] field.kind = "LegacyChecksum" -> LegacyChecksumRead(frame, position, dest_dict)
      [] field.kind = "LegacyStop" -> LegacyStopRead(frame, position, dest_dict)
      [] field.kind = "CrcAndStop" -> CrcAndStopRead(frame, position, dest_dict)
      [] field.kind = "GenericPayload" ->
            GenericPayloadRead(frame, position, dest_dict, annotate)
      [] OTHER -> ValueFieldRead(field, frame, position, dest_dict, annotate)

(***************************************************************************)
(* The client (client.py).  client is [address, _is_000xi,                 *)
(* _infered_standard_fields]; the inferred schema is held by name.         *)
(***************************************************************************)
NoFields == "None"

Schema(name) ==
    CASE name = "FIELDS_SERIES_00_02" -> FIELDS_SERIES_00_02
      [] name = "FIELDS_SERIES_XP" -> FIELDS_SERIES_XP
      [] name = "FIELDS_SERIES_000XI" -> FIELDS_SERIES_000XI
      [] name = "BASE_FIELDS_GENERIC" -> BASE_FIELDS_GENERIC
      [] name = "FIELDS_SERIAL" -> FIELDS_SERIAL

\* KacoInverterClient.__init__
NewClient(address) ==
    [address |-> address, _is_000xi |-> FALSE, _infered_standard_fields |-> NoFields]

\* f"{address:02}" for 1 <= address <= 99
TwoDigits(address) == <<ZERO + (address \div 10), ZERO + (address % 10)>>

\* the command with the address as f"{self._address}", not padded to two
\* digits
CommandBytesUnpadded(address, command) ==
    <<35>> \o (IF address < 10 THEN <<ZERO + address>> ELSE TwoDigits(address))
    \o <<command, CR>>

\* f"#{self._address:02}{command}\r".encode("ASCII"); command is a character code
CommandBytes(address, command) == <<35>> \o TwoDigits(address) \o <<command, CR>>

\* the outcome of _send_command: the echoed command and the response, or err
SendOk(port, command, response) ==
    [ok |-> TRUE, port |-> port, command |-> command, response |-> response,
     err |-> NoError]
SendFail(port, err) ==
    [ok |-> FALSE, port |-> port, command |-> 0, response |-> <<>>, err |-> err]

\* the part of _send_command after the try block without lines 54 to 58: the
\* echoed address is not compared
HeaderCheckedAnyAddress(address, port, response, echoed) ==
    IF ~IsAscii(Slice(response, 0, 5)) \/ ~echoed.ok
    THEN SendFail(port, ProtocolException("Expected ASCII characters", <<>>))
    ELSE SendOk(port, At(response, 4), response)

\* the part of _send_command after the try block, with echoed = int(header[2:4])
HeaderChecked(address, port, response, echoed) ==
    IF ~IsAscii(Slice(response, 0, 5)) \/ ~echoed.ok
    THEN SendFail(port, ProtocolException("Expected ASCII characters", <<>>))
    ELSE IF echoed.n # address
    THEN SendFail(port, ProtocolException("Expected response from", <<address, echoed.n>>))
    ELSE SendOk(port, At(response, 4), response)

\* the part of _send_command after the try block
CheckHeader(address, port, response) ==
    IF ~HasRemaining(response, 0, 5) THEN SendFail(port, EndOfFrame)
    ELSE HeaderChecked(address, port, response, PyInt(Slice(response, 2, 4)))

\* _send_command without the reset_input_buffer of line 42
_send_command_NoReset(address, port, command) ==
    LET reply == Pending(port)
        written == Called(port, "write", CommandBytes(address, command))
        flushed == Called(written, "flush", <<>>)
        read == AfterRead(flushed)
    IN  IF reply.fault = "write" THEN SendFail(written, SerialPortError)
        ELSE IF reply.fault = "flush" THEN SendFail(flushed, SerialPortError)
        ELSE IF reply.fault = "read_until" THEN SendFail(read, SerialPortError)
        ELSE CheckHeader(address, read, reply.bytes)

\* _send_command without the except clause of lines 46 and 47: the
\* SerialException of the port goes to the caller as it is
_send_command_Unwrapped(address, port, command) ==
    LET reply == Pending(port)
        reset == Called(port, "reset_input_buffer", <<>>)
        written == Called(reset, "write", CommandBytes(address, command))
        flushed == Called(written, "flush", <<>>)
        read == AfterRead(flushed)
    IN  IF reply.fault = "reset_input_buffer"
        THEN SendFail(reset, OtherException("SerialException"))
        ELSE IF reply.fault = "write"
        THEN SendFail(written, OtherException("SerialException"))
        ELSE IF reply.fault = "flush"
        THEN SendFail(flushed, OtherException("SerialException"))
        ELSE IF reply.fault = "read_until"
        THEN SendFail(read, OtherException("SerialException"))
        ELSE CheckHeader(address, read, reply.bytes)

\* KacoInverterClient._send_command
_send_command(address, port, command) ==
    LET reply == Pending(port)
        reset == Called(port, "reset_input_buffer", <<>>)
        written == Called(reset, "write", CommandBytes(address, command))
        flushed == Called(written, "flush", <<>>)
        read == AfterRead(flushed)
    IN  IF reply.fault = "reset_input_buffer" THEN SendFail(reset, SerialPortError)
        ELSE IF reply.fault = "write" THEN SendFail(written, SerialPortError)
        ELSE IF reply.fault = "flush" THEN SendFail(flushed, SerialPortError)
        ELSE IF reply.fault = "read_until" THEN SendFail(read, SerialPortError)
        ELSE CheckHeader(address, read, reply.bytes)

\* the outcome of _parse_fields: the record, or err.  schema, checksum_end
\* (the cursor right after the checksum field, NoneInt when the field was
\* not read), buffered (the length of the frame at that moment) and reads
\* (the number of read_until calls the parse made) record what the parse did.
ParseResult(ok, data_dict, err, port, checksum_end, buffered, reads) ==
    [ok |-> ok, data_dict |-> data_dict, err |-> err, port |-> port,
     checksum_end |-> checksum_end, buffered |-> buffered, reads |-> reads]

\* the loop without lines 74 to 78: the frame is never read on
NeedsMoreNever(field, position, message) == FALSE

\* the condition of _parse_fields under which it reads on
NeedsMore(field, position, message) ==
    position = Len(message) /\ field.kind = "LegacyChecksum"

\* the state of the loop of _parse_fields: the frame read so far, the cursor,
\* the record, the port, and what the parse did at the checksum field
Parsing(ok, message, position, data_dict, err, port, checksum_end, buffered, reads) ==
    [ok |-> ok, message |-> message, position |-> position, data_dict |-> data_dict,
     err |-> err, port |-> port, checksum_end |-> checksum_end, buffered |-> buffered,
     reads |-> reads]

\* the cursor right after the checksum field and the length of the frame
\* buffered at that moment, once field is read with r = field.read(...)
CursorAfterChecksum(field, st, r) ==
    IF field.kind = "LegacyChecksum" THEN r.pos ELSE st.checksum_end
BufferedAtChecksum(field, st) ==
    IF field.kind = "LegacyChecksum" THEN Len(st.message) ELSE st.buffered

\* the pass with the read of line 76 made a second time when the first gave
\* nothing (a timeout)
FieldReadRetrying(field, st, r) ==
    IF ~r.ok
    THEN Parsing(FALSE, st.message, st.position, EmptyDict, r.err, st.port,
                 st.checksum_end, st.buffered, st.reads)
    ELSE IF ~NeedsMore(field, r.pos, st.message)
    THEN Parsing(TRUE, st.message, r.pos, r.dict, NoError, st.port,
                 CursorAfterChecksum(field, st, r), BufferedAtChecksum(field, st),
                 st.reads)
    ELSE IF Pending(st.port).fault = "read_until"
    THEN Parsing(FALSE, st.message, r.pos, EmptyDict, SerialPortError,
                 AfterRead(st.port), CursorAfterChecksum(field, st, r),
                 BufferedAtChecksum(field, st), st.reads + 1)
    ELSE IF Pending(st.port).bytes # <<>>
    THEN Parsing(TRUE, st.message \o Pending(st.port).bytes, r.pos, r.dict, NoError,
                 AfterRead(st.port), CursorAfterChecksum(field, st, r),
                 BufferedAtChecksum(field, st), st.reads + 1)
    ELSE IF Pending(AfterRead(st.port)).fault = "read_until"
    THEN Parsing(FALSE, st.message, r.pos, EmptyDict, SerialPortError,
                 AfterRead(AfterRead(st.port)), CursorAfterChecksum(field, st, r),
                 BufferedAtChecksum(field, st), st.reads + 2)
    ELSE Parsing(TRUE, st.message \o Pending(AfterRead(st.port)).bytes, r.pos, r.dict,
                 NoError, AfterRead(AfterRead(st.port)),
                 CursorAfterChecksum(field, st, r), BufferedAtChecksum(field, st),
                 st.reads + 2)

\* one pass of the loop of _parse_fields, with r = field.read(...)
FieldRead(field, st, r) ==
    IF ~r.ok
    THEN Parsing(FALSE, st.message, st.position, EmptyDict, r.err, st.port,
                 st.checksum_end, st.buffered, st.reads)
    ELSE IF ~NeedsMore(field, r.pos, st.message)
    THEN Parsing(TRUE, st.message, r.pos, r.dict, NoError, st.port,
                 CursorAfterChecksum(field, st, r), BufferedAtChecksum(field, st),
                 st.reads)
    ELSE IF Pending(st.port).fault = "read_until"
    THEN Parsing(FALSE, st.message, r.pos, EmptyDict, SerialPortError,
                 AfterRead(st.port), CursorAfterChecksum(field, st, r),
                 BufferedAtChecksum(field, st), st.reads + 1)
    ELSE Parsing(TRUE, st.message \o Pending(st.port).bytes, r.pos, r.dict, NoError,
                 AfterRead(st.port), CursorAfterChecksum(field, st, r),
                 BufferedAtChecksum(field, st), st.reads + 1)

\* one pass of the loop of _parse_fields, for field
ParseField(field, st, annotate) ==
    FieldRead(field, st, Read(field, st.message, st.position, st.data_dict, annotate))

\* the loop of _parse_fields over the fields lo+1..hi from the state st; the
\* range is walked by halves
RECURSIVE ParseFrom(_, _, _, _, _)
ParseFrom(fields, lo, hi, st, annotate) ==
    IF ~st.ok \/ lo >= hi THEN st
    ELSE IF hi = lo + 1 THEN ParseField(fields[hi], st, annotate)
    ELSE LET first == ParseFrom(fields, lo, (lo + hi) \div 2, st, annotate)
         IN  IF first.ok
             THEN ParseFrom(fields, (lo + hi) \div 2, hi, first, annotate)
             ELSE first

\* what _parse_fields gives back after the loop ended in the state st
Returned(st) ==
    ParseResult(st.ok, st.data_dict, st.err, st.port, st.checksum_end, st.buffered,
                st.reads)

\* KacoInverterClient._parse_fields
_parse_fields(fields, message, annotate, port) ==
    Returned(ParseFrom(fields, 0, Len(fields),
                       Parsing(TRUE, message, 0, EmptyDict, NoError, port,
                               NoneInt, NoneInt, 0),
                       annotate))

\* one decode attempt of a call, for the record of what the call did: the
\* schema, and what _parse_fields gave back
Attempt(schema, p) ==
    [schema |-> schema, ok |-> p.ok, data_dict |-> p.data_dict,
     checksum_end |-> p.checksum_end, buffered |-> p.buffered, reads |-> p.reads,
     err |-> p.err]

\* the outcome of a handler: the value returned or the exception raised, the
\* client and the port afterwards, and the decode attempts made
Outcome(ok, value, err, client, port, attempts) ==
    [ok |-> ok, value |-> value, err |-> err, client |-> client, port |-> port,
     attempts |-> attempts]

\* the cached branch dropping the inferred schema when its parse fails
CachedReadingsForgetting(client, p) ==
    Outcome(p.ok, p.data_dict, p.err,
            IF p.ok THEN client ELSE [client EXCEPT !._infered_standard_fields = NoFields],
            p.port, <<Attempt(client._infered_standard_fields, p)>>)

\* _handle_kaco_standard_readings with an inferred schema, p its parse
CachedReadings(client, p) ==
    Outcome(p.ok, p.data_dict, p.err, client, p.port,
            <<Attempt(client._infered_standard_fields, p)>>)

\* the except branch with the assignment of line 95 made before the parse of
\* line 94 returned
SecondTrialCachingFirst(client, first, second) ==
    Outcome(second.ok, second.data_dict, second.err,
            [client EXCEPT !._infered_standard_fields = "FIELDS_SERIES_XP"],
            second.port,
            <<Attempt("FIELDS_SERIES_00_02", first), Attempt("FIELDS_SERIES_XP", second)>>)

\* the except branch raising, when the second parse fails too, the error
\* the first parse was caught with
SecondTrialReportingFirst(client, first, second) ==
    Outcome(second.ok, second.data_dict, IF second.ok THEN second.err ELSE first.err,
            IF second.ok
            THEN [client EXCEPT !._infered_standard_fields = "FIELDS_SERIES_XP"]
            ELSE client,
            second.port,
            <<Attempt("FIELDS_SERIES_00_02", first), Attempt("FIELDS_SERIES_XP", second)>>)

\* the except branch of _handle_kaco_standard_readings, second its parse
SecondTrial(client, first, second) ==
    Outcome(second.ok, second.data_dict, second.err,
            IF second.ok
            THEN [client EXCEPT !._infered_standard_fields = "FIELDS_SERIES_XP"]
            ELSE client,
            second.port,
            <<Attempt("FIELDS_SERIES_00_02", first), Attempt("FIELDS_SERIES_XP", second)>>)

\* the try without its except branch: a failure of the first schema is final
FirstTrialOnly(client, message, annotate, first) ==
    Outcome(first.ok, first.data_dict, first.err,
            IF first.ok
            THEN [client EXCEPT !._infered_standard_fields = "FIELDS_SERIES_00_02"]
            ELSE client,
            first.port, <<Attempt("FIELDS_SERIES_00_02", first)>>)

\* the try with the assignment of line 92 naming the other schema: a frame
\* that FIELDS_SERIES_00_02 decodes leaves FIELDS_SERIES_XP cached
FirstTrialInferringXP(client, message, annotate, first) ==
    IF first.ok
    THEN Outcome(TRUE, first.data_dict, NoError,
                 [client EXCEPT !._infered_standard_fields = "FIELDS_SERIES_XP"],
                 first.port, <<Attempt("FIELDS_SERIES_00_02", first)>>)
    ELSE IF first.err.exc # "ProtocolException"
    THEN Outcome(FALSE, EmptyDict, first.err, client, first.port,
                 <<Attempt("FIELDS_SERIES_00_02", first)>>)
    ELSE SecondTrial(client, first,
                     _parse_fields(FIELDS_SERIES_XP, message, annotate, first.port))

\* the try of _handle_kaco_standard_readings, first its parse
FirstTrial(client, message, annotate, first) ==
    IF first.ok
    THEN Outcome(TRUE, first.data_dict, NoError,
                 [client EXCEPT !._infered_standard_fields = "FIELDS_SERIES_00_02"],
                 first.port, <<Attempt("FIELDS_SERIES_00_02", first)>>)
    ELSE IF first.err.exc # "ProtocolException"
    THEN Outcome(FALSE, EmptyDict, first.err, client, first.port,
                 <<Attempt("FIELDS_SERIES_00_02", first)>>)
    ELSE SecondTrial(client, first,
                     _parse_fields(FIELDS_SERIES_XP, message, annotate, first.port))

\* _handle_kaco_standard_readings without the test of line 84: the two
\* schemas are tried on every frame
_handle_kaco_standard_readings_Uncached(client, port, message, annotate) ==
    FirstTrial(client, message, annotate,
               _parse_fields(FIELDS_SERIES_00_02, message, annotate, port))

\* KacoInverterClient._handle_kaco_standard_readings
_handle_kaco_standard_readings(client, port, message, annotate) ==
    IF client._infered_standard_fields # NoFields
    THEN CachedReadings(client,
                        _parse_fields(Schema(client._infered_standard_fields), message,
                                      annotate, port))
    ELSE FirstTrial(client, message, annotate,
                    _parse_fields(FIELDS_SERIES_00_02, message, annotate, port))

\* the keys of sub-unit index: f"{index}_{key}"
\* data_dict[f"{index}_{key}"] = value for the items lo+1..hi of
\* sub_data_dict, by halves
RECURSIVE Prefixed(_, _, _, _, _)
Prefixed(data_dict, sub_data_dict, index, lo, hi) ==
    IF lo >= hi THEN data_dict
    ELSE IF hi = lo + 1
    THEN DictSet(data_dict, index \o "_" \o sub_data_dict[hi].key, sub_data_dict[hi].value)
    ELSE LET first == Prefixed(data_dict, sub_data_dict, index, lo, (lo + hi) \div 2)
         IN  IF Len(first) >= 0
             THEN Prefixed(first, sub_data_dict, index, (lo + hi) \div 2, hi)
             ELSE first

\* the value under a key, with or without its annotation
Plain(value) == IF value.t = "annotated" THEN value.value ELSE value

\* the combined type with the suffix digit of unit 1 kept
CombinedTypeWithSuffix(data_dict) ==
    StrV(<<51, 120>> \o Get(data_dict, "1_inverter_type").s)

\* f"3x{data_dict['1_inverter_type'][:-1]}"
CombinedType(data_dict) ==
    LET unit1 == Get(data_dict, "1_inverter_type").s
    IN  StrV(<<51, 120>> \o SubSeq(unit1, 1, Len(unit1) - 1))

Indexes == <<"1", "2", "3">>

\* the character code of a sub-unit command
IndexCode(k) == ZERO + k

\* the loop of _query_000xi_readings from index k on, and its tail
RECURSIVE Query000xiFrom(_, _, _, _, _, _)

\* one pass of the loop, with p = self._parse_fields(FIELDS_SERIES_000XI, ...)
SubUnitParsed(k, client, data_dict, annotate, attempts, p) ==
    IF ~p.ok
    THEN Outcome(FALSE, EmptyDict, p.err, client, p.port,
                 Append(attempts, Attempt("FIELDS_SERIES_000XI", p)))
    ELSE Query000xiFrom(k + 1, client, p.port,
                        Prefixed(data_dict, p.data_dict, Indexes[k], 0, Len(p.data_dict)),
                        annotate, Append(attempts, Attempt("FIELDS_SERIES_000XI", p)))

\* one pass of the loop, with sent = self._send_command(index)
SubUnitSent(k, client, data_dict, annotate, attempts, sent) ==
    IF ~sent.ok THEN Outcome(FALSE, EmptyDict, sent.err, client, sent.port, attempts)
    ELSE IF sent.command # IndexCode(k)
    THEN Outcome(FALSE, EmptyDict, OtherException("AssertionError"), client, sent.port,
                 attempts)
    ELSE SubUnitParsed(k, client, data_dict, annotate, attempts,
                       _parse_fields(FIELDS_SERIES_000XI, sent.response, annotate,
                                     sent.port))

Query000xiFrom(k, client, port, data_dict, annotate, attempts) ==
    IF k > Len(Indexes)
    THEN Outcome(TRUE, DictSet(data_dict, "inverter_type", CombinedType(data_dict)),
                 NoError, [client EXCEPT !._is_000xi = TRUE], port, attempts)
    ELSE SubUnitSent(k, client, data_dict, annotate, attempts,
                     _send_command(client.address, port, IndexCode(k)))

\* KacoInverterClient._query_000xi_readings
_query_000xi_readings(client, port, annotate, attempts) ==
    Query000xiFrom(1, client, port, EmptyDict, annotate, attempts)

\* what a handler that parses one frame gives back, p its parse
Handled(client, schema, p) ==
    Outcome(p.ok, p.data_dict, p.err, client, p.port, <<Attempt(schema, p)>>)

\* KacoInverterClient._handle_generic_readings
_handle_generic_readings(client, port, message, annotate) ==
    Handled(client, "BASE_FIELDS_GENERIC",
            _parse_fields(BASE_FIELDS_GENERIC, message, annotate, port))

\* the dispatch with self._is_000xi set as soon as the echo is "4"
DispatchedCachingEcho(client, annotate, sent) ==
    IF ~sent.ok THEN Outcome(FALSE, EmptyDict, sent.err, client, sent.port, <<>>)
    ELSE IF sent.command = ZERO
    THEN _handle_kaco_standard_readings(client, sent.port, sent.response, annotate)
    ELSE IF sent.command = ZERO + 4
    THEN _query_000xi_readings([client EXCEPT !._is_000xi = TRUE], sent.port, annotate,
                               <<>>)
    ELSE IF sent.command = 110
    THEN _handle_generic_readings(client, sent.port, sent.response, annotate)
    ELSE Outcome(FALSE, EmptyDict,
                 ProtocolException("Expected '0', '4' or 'n' command response",
                                   <<sent.command>>),
                 client, sent.port, <<>>)

\* the dispatch with one retry: a "0" command that failed is sent a second
\* time before the call gives up
DispatchedRetrying(client, annotate, sent) ==
    LET again == IF sent.ok THEN sent ELSE _send_command(client.address, sent.port, ZERO)
    IN  IF ~again.ok THEN Outcome(FALSE, EmptyDict, again.err, client, again.port, <<>>)
        ELSE IF again.command = ZERO
        THEN _handle_kaco_standard_readings(client, again.port, again.response, annotate)
        ELSE IF again.command = ZERO + 4
        THEN _query_000xi_readings(client, again.port, annotate, <<>>)
        ELSE IF again.command = 110
        THEN _handle_generic_readings(client, again.port, again.response, annotate)
        ELSE Outcome(FALSE, EmptyDict,
                     ProtocolException("Expected '0', '4' or 'n' command response",
                                       <<again.command>>),
                     client, again.port, <<>>)

\* the dispatch without the else branch of lines 140 to 143: a response
\* with any other echo is handled as a standard one
DispatchedAnyEcho(client, annotate, sent) ==
    IF ~sent.ok THEN Outcome(FALSE, EmptyDict, sent.err, client, sent.port, <<>>)
    ELSE IF sent.command = ZERO + 4
    THEN _query_000xi_readings(client, sent.port, annotate, <<>>)
    ELSE IF sent.command = 110
    THEN _handle_generic_readings(client, sent.port, sent.response, annotate)
    ELSE _handle_kaco_standard_readings(client, sent.port, sent.response, annotate)

\* query_readings from the response to the "0" command on
Dispatched(client, annotate, sent) ==
    IF ~sent.ok THEN Outcome(FALSE, EmptyDict, sent.err, client, sent.port, <<>>)
    ELSE IF sent.command = ZERO
    THEN _handle_kaco_standard_readings(client, sent.port, sent.response, annotate)
    ELSE IF sent.command = ZERO + 4
    THEN _query_000xi_readings(client, sent.port, annotate, <<>>)
    ELSE IF sent.command = 110
    THEN _handle_generic_readings(client, sent.port, sent.response, annotate)
    ELSE Outcome(FALSE, EmptyDict,
                 ProtocolException("Expected '0', '4' or 'n' command response",
                                   <<sent.command>>),
                 client, sent.port, <<>>)

\* query_readings without the test of line 132: "0" is sent first every time
query_readings_Undetected(client, port, annotate) ==
    Dispatched(client, annotate, _send_command(client.address, port, ZERO))

\* KacoInverterClient.query_readings
query_readings(client, port, annotate) ==
    IF client._is_000xi THEN _query_000xi_readings(client, port, annotate, <<>>)
    ELSE Dispatched(client, annotate, _send_command(client.address, port, ZERO))

\* query_serial_number from the parse of the response on
SerialParsed(client, p) ==
    Outcome(p.ok, IF p.ok THEN Get(p.data_dict, "serial_number") ELSE StrV(<<>>), p.err,
            client, p.port, <<Attempt("FIELDS_SERIAL", p)>>)

\* query_serial_number dropping what the client has cached when the echo
\* is not "s"
SerialSentForgetting(client, sent) ==
    IF ~sent.ok THEN Outcome(FALSE, StrV(<<>>), sent.err, client, sent.port, <<>>)
    ELSE IF sent.command # 115
    THEN Outcome(FALSE, StrV(<<>>),
                 ProtocolException("Expected 's' command response", <<sent.command>>),
                 NewClient(client.address), sent.port, <<>>)
    ELSE SerialParsed(client, _parse_fields(FIELDS_SERIAL, sent.response, FALSE, sent.port))

\* query_serial_number from the response to the "s" command on
SerialSent(client, sent) ==
    IF ~sent.ok THEN Outcome(FALSE, StrV(<<>>), sent.err, client, sent.port, <<>>)
    ELSE IF sent.command # 115
    THEN Outcome(FALSE, StrV(<<>>),
                 ProtocolException("Expected 's' command response", <<sent.command>>),
                 client, sent.port, <<>>)
    ELSE SerialParsed(client, _parse_fields(FIELDS_SERIAL, sent.response, FALSE, sent.port))

\* KacoInverterClient.query_serial_number
query_serial_number(client, port) ==
    SerialSent(client, _send_command(client.address, port, 115))

(***************************************************************************)
(* The inverter at the other end of the line: how it lays out the frames   *)
(* the client reads.  A reading gives, per field name, the number the      *)
(* inverter reports (a decimal field as its digits without the point) or   *)
(* the characters of its type.                                             *)
(***************************************************************************)
\* the decimal digits of n >= 0
Digits(n) ==
    LET count == Least({k \in 1..9 : n < Pow(10, k)})
    IN  [i \in 1..count |-> ZERO + ((n \div Pow(10, count - i)) % 10)]

Pow10(e) == Pow(10, e)

PadLeft(text, width, pad) ==
    IF Len(text) >= width THEN text
    ELSE [i \in 1..(width - Len(text)) |-> pad] \o text

\* m / 10^precision written with precision decimal places
DecimalText(m, precision) ==
    Digits(m \div Pow10(precision)) \o <<DOT>>
        \o PadLeft(Digits(m % Pow10(precision)), precision, ZERO)

\* the text of one value field, right-aligned in the field's width
FieldText(field, reading) ==
    LET text == CASE field.kind = "Int" -> Digits(reading[field.name])
                  [] field.kind = "Float" -> DecimalText(reading[field.name], field.precision)
                  [] OTHER -> reading[field.name]
    IN  <<SP>> \o PadLeft(text, field.length, SP)

\* the checksum byte the inverter sends after the bytes sent so far
\* the sum of bytes[from..to] (1-based), by halves
RECURSIVE SumOf(_, _, _)
SumOf(bytes, from, to) ==
    IF from > to THEN 0
    ELSE IF from = to THEN bytes[from]
    ELSE SumOf(bytes, from, (from + to) \div 2) + SumOf(bytes, (from + to) \div 2 + 1, to)

SentChecksum(sent) == (SumOf(sent, 2, Len(sent)) + SP) % 256

\* what the inverter sends for one field after the bytes sent so far
FieldBytes(field, reading, sent) ==
    CASE field.kind = "LegacyChecksum" -> <<SP, SentChecksum(sent)>>
      [] field.kind = "LegacyStop" -> <<CR>>
      [] OTHER -> FieldText(field, reading)

\* the bytes sent with the fields lo+1..hi behind them, by halves
RECURSIVE LegacyFrameFrom(_, _, _, _, _)
LegacyFrameFrom(fields, lo, hi, reading, sent) ==
    IF lo >= hi THEN sent
    ELSE IF hi = lo + 1 THEN sent \o FieldBytes(fields[hi], reading, sent)
    ELSE LET first == LegacyFrameFrom(fields, lo, (lo + hi) \div 2, reading, sent)
         IN  IF Len(first) >= 0
             THEN LegacyFrameFrom(fields, (lo + hi) \div 2, hi, reading, first)
             ELSE first

\* the start of every response: "\n*" + address + command echo
Header(address, echo) == <<LF, STAR>> \o TwoDigits(address) \o <<echo>>

\* the legacy frame of a reading in the layout of a schema
LegacyFrame(schema, address, echo, reading) ==
    LegacyFrameFrom(Schema(schema), 1, Len(Schema(schema)), reading,
                    Header(address, echo))

\* readings: the frames of tests/test_client.py
Type3600xi == <<51, 54, 48, 48, 120, 105>>
Type100kTR == <<49, 48, 48, 107, 84, 82>>
Type8k(unit) == <<56, 107, ZERO + unit>>

StandardReading ==
    [status |-> 4, dc_voltage |-> 4868, dc_current |-> 129, dc_power |-> 627,
     ac_voltage |-> 2360, ac_current |-> 243, ac_power |-> 558,
     device_temperature |-> 24, daily_yield |-> 3401, inverter_type |-> Type3600xi]

XPReading(daily_yield) ==
    [status |-> 4, dc_voltage |-> 6999, dc_current |-> 99999, dc_power |-> 999999,
     ac_voltage |-> 9991, ac_current |-> 12345, ac_power |-> 1558,
     device_temperature |-> 42, daily_yield |-> daily_yield,
     inverter_type |-> Type100kTR, total_yield |-> 123456789]

UnitReading(unit, daily_yield) ==
    [status |-> 3 + unit, dc_voltage |-> 1000 * unit + 868, dc_current |-> 1000 * unit + 129,
     dc_power |-> 100000 * unit + 23621, ac_voltage |-> 1000 * unit + 361,
     ac_current |-> 1000 * unit + 345, ac_power |-> 1000 * unit + 558,
     device_temperature |-> 10 * unit + 2, daily_yield |-> daily_yield,
     inverter_type |-> Type8k(unit)]

\* daily yields: with 13401 the XP frame of address 42 has the checksum
\* byte "\r", with 13404 that of address 3; with 105 and 108 the frame of
\* sub-unit 2 has, for address 42 and for address 3
XPYields == {13401, 13404}
Unit2Yields == {105, 108}

StandardReadings == {StandardReading}
XPReadings == {XPReading(y) : y \in XPYields}
UnitReadings(unit) ==
    CASE unit = 1 -> {UnitReading(1, 13401)}
      [] unit = 2 -> {UnitReading(2, y) : y \in Unit2Yields}
      [] unit = 3 -> {UnitReading(3, 33401)}

\* the generic frame and the serial-number frame of the tests, from the
\* command echo to the last field, and their CRC per address
GenericBody ==
    <<110, 32, 50, 48, 32, 51, 88, 50, 52, 32, 52, 32, 32, 50, 49, 52, 46, 55, 32, 32, 49,
      46, 57, 55, 32, 32, 32, 52, 50, 49, 32, 32, 32, 32, 48, 46, 48, 32, 32, 48, 46, 48,
      52, 32, 32, 32, 32, 32, 48, 32, 32, 50, 51, 49, 46, 49, 32, 32, 48, 46, 56, 48, 32,
      32, 50, 51, 52, 46, 49, 32, 32, 48, 46, 55, 57, 32, 32, 50, 51, 52, 46, 52, 32, 32,
      48, 46, 56, 49, 32, 32, 32, 52, 50, 49, 32, 32, 32, 52, 49, 51, 32, 48, 46, 55, 51,
      53, 105, 32, 32, 51, 54, 46, 55, 32, 32, 32, 49, 54, 52, 48>>

\* "12.0TL3-0042"
SerialNumber == <<49, 50, 46, 48, 84, 76, 51, 45, 48, 48, 52, 50>>

\* "FEB7" (address 3) and "9FE9" (address 42)
GenericCrc(address) == IF address = 3 THEN <<70, 69, 66, 55>> ELSE <<57, 70, 69, 57>>

\* "C55F" (address 3) and "0B73" (address 42)
SerialCrc(address) == IF address = 3 THEN <<67, 53, 53, 70>> ELSE <<48, 66, 55, 51>>

GenericFrame(address) ==
    <<LF, STAR>> \o TwoDigits(address) \o GenericBody \o <<SP>> \o GenericCrc(address) \o <<CR>>

SerialFrame(address) ==
    Header(address, 115) \o <<SP>> \o SerialNumber \o <<SP>> \o SerialCrc(address) \o <<CR>>

\* a generic frame as an inverter lays it out: the start, the number of
\* elements, the type, the status and the payload, and the CRC of all of it
\* from the "*" to the space in front of the CRC, in four hexadecimal digits
HexDigit(d) == IF d < 10 THEN ZERO + d ELSE 55 + d

Hex4(n) ==
    <<HexDigit(n \div 4096), HexDigit((n \div 256) % 16), HexDigit((n \div 16) % 16),
      HexDigit(n % 16)>>

WithCrc(covered) == covered \o Hex4(Crc16X25(covered, Len(covered) - 1)) \o <<CR>>

\* the answer to "s" of an inverter whose serial number is one NUL byte:
\* "\n*03s \0 55D8\r" at address 3
BlankSerialFrame(address) == WithCrc(Header(address, 115) \o <<SP, 0, SP>>)

GenericFrameOf(address, reading) ==
    WithCrc(Header(address, 110) \o <<SP>> \o Digits(reading.number_of_elements)
            \o <<SP>> \o reading.inverter_type \o reading.tail \o <<SP>>)

Type3X24 == <<51, 88, 50, 52>>

\* the status and the payload of the generic frame of the tests (the layout
\* of the types of section 3.3.2), and the same without the MPPT fields
\* (the layout of the types of section 3.3.4)
GenericTail == SubSeq(GenericBody, 10, Len(GenericBody))
GenericTail334 == SubSeq(GenericBody, 10, 24) \o SubSeq(GenericBody, 50, Len(GenericBody))

GenericReading(number_of_elements, inverter_type, tail) ==
    [number_of_elements |-> number_of_elements, inverter_type |-> inverter_type,
     tail |-> tail]

\* the generic readings that are laid out as their type has it
WellFormedGeneric ==
    {GenericReading(20, Type3X24, GenericTail),
     GenericReading(16, Type100kTR, GenericTail334)}

\* type strings in none of the sets: "3X2", "3x24", "03X24", "390M1", "0000"
UnknownTypes ==
    {<<51, 88, 50>>, <<51, 120, 50, 52>>, <<48, 51, 88, 50, 52>>,
     <<51, 57, 48, 77, 49>>, <<48, 48, 48, 48>>}

\* the frame with the byte at position at (0-based) replaced
Replaced(frame, at, byte) == [frame EXCEPT ![at + 1] = byte]

\* a header with the address written as f"{address:2}": " 3" for address 3
BlankPaddedHeader(address, echo) ==
    <<LF, STAR>>
    \o (IF address < 10 THEN <<SP, ZERO + address>> ELSE TwoDigits(address))
    \o <<echo>>

\* the bus addresses of the clients
Addresses == {3, 42}

\* what the inverter may send to the client at address
Sent(address) ==
    {LegacyFrame("FIELDS_SERIES_00_02", address, ZERO, r) : r \in StandardReadings}
    \cup {LegacyFrame("FIELDS_SERIES_XP", address, ZERO, r) : r \in XPReadings}
    \cup UNION {{LegacyFrame("FIELDS_SERIES_000XI", address, ZERO + unit, r) :
                    r \in UnitReadings(unit)} : unit \in {1, 2, 3}}
    \cup {Header(address, ZERO + 4) \o <<CR>>,
          GenericFrame(address), SerialFrame(address), BlankSerialFrame(address),
          \* a generic frame with one digit changed
          Replaced(GenericFrame(address), 20, ZERO),
          \* a generic frame of the type "3x24", which is in none of the sets
          Replaced(GenericFrame(address), 10, 120),
          \* a standard frame with one digit changed
          Replaced(LegacyFrame("FIELDS_SERIES_00_02", address, ZERO, StandardReading), 8, ZERO),
          \* a standard frame from another address, and one with echo "6"
          LegacyFrame("FIELDS_SERIES_00_02", address + 1, ZERO, StandardReading),
          LegacyFrame("FIELDS_SERIES_00_02", address, ZERO + 6, StandardReading),
          \* a header that is not ASCII
          Replaced(Header(address, ZERO) \o <<SP, CR>>, 2, 255),
          \* a standard frame with a blank in the place of a leading "0" of
          \* the address
          LegacyFrameFrom(FIELDS_SERIES_00_02, 1, Len(FIELDS_SERIES_00_02), StandardReading,
                          BlankPaddedHeader(address, ZERO))}
    \* the response with echo "4" with an "x" in the place of the "\n", sent
    \* to the first address
    \cup (IF address = Least(Addresses)
          THEN {Replaced(Header(address, ZERO + 4) \o <<CR>>, 0, 120)}
          ELSE {})

\* read_until(b"\r") on a stream: the bytes up to and with the first "\r"
UntilCR(stream) ==
    LET ends == {i \in 1..Len(stream) : stream[i] = CR}
    IN  IF ends = {} THEN stream ELSE SubSeq(stream, 1, Least(ends))

\* the pieces in which successive read_until calls return a stream
RECURSIVE Chunks(_)
Chunks(stream) ==
    IF stream = <<>> THEN {}
    ELSE {UntilCR(stream)} \cup Chunks(SliceFrom(stream, Len(UntilCR(stream))))

Faults == {"reset_input_buffer", "write", "flush", "read_until"}

\* a standard frame cut off by the timeout right after its checksum byte
CutAfterChecksum(address) ==
    SubSeq(LegacyFrame("FIELDS_SERIES_00_02", address, ZERO, StandardReading), 1, 58)

\* what a read_until gives when a byte "a" follows the "\r" of a frame: of
\* the standard, the generic and the serial-number frame, and of what is left
\* of an XP frame behind a checksum byte "\r"
XPPieces(address) ==
    UNION {Chunks(LegacyFrame("FIELDS_SERIES_XP", address, ZERO, r)) : r \in XPReadings}

Trailed(address) ==
    {LegacyFrame("FIELDS_SERIES_00_02", address, ZERO, StandardReading) \o <<97>>,
     GenericFrame(address) \o <<97>>, SerialFrame(address) \o <<97>>}
    \cup {chunk \o <<97>> : chunk \in {c \in XPPieces(address) : Head(c) # LF}}

\* what the port may do at a read_until of the client at address
RepliesTo(address) ==
    {Reply("", chunk) : chunk \in UNION {Chunks(frame) : frame \in Sent(address)}}
    \cup {Timeout, Reply("", CutAfterChecksum(address))}
    \cup {Reply("", bytes) : bytes \in Trailed(address)}
    \cup {Reply(fault, <<>>) : fault \in Faults}

\* the replies of every address, each with its address
AllReplies ==
    UNION {{<<address, reply>> : reply \in RepliesTo(address)} : address \in Addresses}

\* the replies to one address
Replies(address) == {pair[2] : pair \in {each \in AllReplies : each[1] = address}}

(***************************************************************************)
(* The state machine.  client is the KacoInverterClient in use.  call is   *)
(* the call made last, until its caller has taken the result: the          *)
(* operation, the client before it, the transport script it ran against    *)
(* and its outcome.  Calls are made one at a time (the protocol is         *)
(* half-duplex, the host serialises the accesses).  line is the serial     *)
(* line as the calls taken so far left it: "unanswered" when the last      *)
(* command written to the port was not followed by a read_until, "quiet"   *)
(* otherwise.  host is the Home Assistant side of the integration (the     *)
(* setup flow and the polling coordinator), described further down.        *)
(***************************************************************************)
VARIABLES client, call, probe, line, host

vars == <<client, call, probe, line, host>>

NoCall(c) ==
    [op |-> "none", annotate |-> FALSE, before |-> c, script |-> <<>>,
     out |-> Outcome(TRUE, EmptyDict, NoError, c, Port(<<>>), <<>>)]

NoProbe == [stage |-> "none"]

\* None, where a value may be missing
NoneV == [t |-> "None", n |-> 0, e |-> 0, s |-> <<>>]

\* no KacoInverterClient: the coordinator's self._client is None
NoClient == NewClient(NoneInt)

\* a serial.Serial as the client uses it: is_open, and the calls made on it
\* that open or close it ("Serial" is the constructor, which opens it)
SerialPort(is_open, calls) == [is_open |-> is_open, calls |-> calls]

\* what a with statement on a client did: is_open of the port when the
\* statement was reached, whether __enter__ returned, whether the body
\* raised, and the port after the statement
Block(was_open, entered, raised, port) ==
    [was_open |-> was_open, entered |-> entered, raised |-> raised, port |-> port]

NoBlock == Block(FALSE, FALSE, FALSE, SerialPort(FALSE, <<>>))

\* a config entry: its title, its data and its unique id
ConfigEntry(title, data, unique_id) ==
    [title |-> title, data |-> data, unique_id |-> unique_id]

NoTitle == [model |-> "", type |-> <<>>, address |-> <<>>]

NoEntry == ConfigEntry(NoTitle, EmptyDict, NoneV)

\* what an operation of the host gave: kind is the flow result type
\* ("form", "create_entry", "abort"), "data" or "UpdateFailed" for the
\* coordinator, or the name of the exception that left the operation
HostResult(kind, errors, entry, data) ==
    [kind |-> kind, errors |-> errors, entry |-> entry, data |-> data]

NoHostResult == HostResult("none", "", NoEntry, EmptyDict)

\* the host before anything was set up: no config entry, no coordinator.
\* entry is the config entry created last and unique_ids the unique ids of
\* the entries there are; _client tells whether the coordinator's
\* self._client is set (the variable client is that object) and is_open is
\* the is_open of its port; previous is the kind of result of the poll
\* before.  op, block, serial and result are the operation the host made
\* last, its with statement, its query_serial_number call and what it gave.
NoHost ==
    [op |-> "none", entry |-> NoEntry, unique_ids |-> {}, _client |-> FALSE,
     is_open |-> FALSE, previous |-> "none", block |-> NoBlock,
     serial |-> NoCall(NoClient), result |-> NoHostResult]

\* a call as the state keeps it
Made(op, annotate, before, script, out) ==
    [op |-> op, annotate |-> annotate, before |-> before, script |-> script, out |-> out]

\* the calls of query_readings the port allows: the script of a call is as
\* long as the reads the call made, so it is extended while the call reads
\* past its end
RECURSIVE ReadingRuns(_, _, _)

ReadingRun(c, annotate, script, out) ==
    IF out.port.starved
    THEN UNION {ReadingRuns(c, annotate, Append(script, r)) : r \in Replies(c.address)}
    ELSE {Made("query_readings", annotate, c, script, out)}

ReadingRuns(c, annotate, script) ==
    ReadingRun(c, annotate, script, query_readings(c, Port(script), annotate))

\* the calls of query_serial_number the port allows
RECURSIVE SerialRuns(_, _)

SerialRun(c, script, out) ==
    IF out.port.starved
    THEN UNION {SerialRuns(c, Append(script, r)) : r \in Replies(c.address)}
    ELSE {Made("query_serial_number", FALSE, c, script, out)}

SerialRuns(c, script) == SerialRun(c, script, query_serial_number(c, Port(script)))

\* the last write among the operations of a port was not followed by a
\* read_until
Unanswered(ops) ==
    \E i \in 1..Len(ops) :
        /\ ops[i].op = "write"
        /\ \A j \in (i + 1)..Len(ops) : ops[j].op \notin {"write", "read_until"}

\* the line after the operations of a call
LineAfter(before, ops) ==
    IF \A i \in 1..Len(ops) : ops[i].op # "write" THEN before
    ELSE IF Unanswered(ops) THEN "unanswered"
    ELSE "quiet"

Init ==
    /\ client \in {NewClient(a) : a \in Addresses}
    /\ call = NoCall(client)
    /\ probe = NoProbe
    /\ line = "quiet"
    /\ host = NoHost

\* client = KacoInverterClient(port, address)
Construct ==
    /\ call.op = "none"
    /\ \E a \in Addresses :
        /\ client' = NewClient(a)
        /\ call' = [NoCall(NewClient(a)) EXCEPT !.op = "__init__", !.before = client]
    /\ UNCHANGED <<probe, line, host>>

\* client.query_readings(annotate)
QueryReadings ==
    /\ call.op = "none"
    /\ \E annotate \in BOOLEAN :
        \E run \in ReadingRuns(client, annotate, <<>>) :
            /\ call' = run
            /\ client' = run.out.client
    /\ UNCHANGED <<probe, line, host>>

\* client.query_serial_number()
QuerySerialNumber ==
    /\ call.op = "none"
    /\ \E run \in SerialRuns(client, <<>>) :
            /\ call' = run
            /\ client' = run.out.client
    /\ UNCHANGED <<probe, line, host>>

\* the caller takes the result or the exception
Return ==
    /\ call.op # "none"
    /\ call' = NoCall(client)
    /\ line' = LineAfter(line, call.out.port.ops)
    /\ UNCHANGED <<client, probe, host>>

Next == Construct \/ QueryReadings \/ QuerySerialNumber \/ Return

Spec == Init /\ [][Next]_vars

(***************************************************************************)
(* The codec alone: probe is one frame on its way from a reading,          *)
(* through the inverter's layout of it and possibly one changed byte, to   *)
(* the record _parse_fields decodes from it with the schema of its family. *)
(***************************************************************************)
\* the names of the value fields of a schema
Names(fields) ==
    {fields[i].name : i \in {j \in 1..Len(fields) :
                                fields[j].kind \in {"Int", "Float", "String"}}}

\* the value field of a schema with a name
Named(fields, name) == fields[Least({i \in 1..Len(fields) : fields[i].name = name})]

\* the reading of the family with every number 0
Lowest(fields, type) ==
    [name \in Names(fields) |-> IF Named(fields, name).kind = "String" THEN type ELSE 0]

\* the reading of the family with every number as wide as its field
Widest(fields, type) ==
    [name \in Names(fields) |->
        CASE Named(fields, name).kind = "Int" -> Pow10(Named(fields, name).length) - 1
          [] Named(fields, name).kind = "Float" -> Pow10(Named(fields, name).length - 1) - 1
          [] OTHER -> type]

\* the readings the codec is run on, each with its schema and command echo
Readings ==
    {[schema |-> "FIELDS_SERIES_00_02", echo |-> ZERO, reading |-> r] :
        r \in StandardReadings \cup {Lowest(FIELDS_SERIES_00_02, Type3600xi),
                                     Widest(FIELDS_SERIES_00_02, Type3600xi)}}
    \cup {[schema |-> "FIELDS_SERIES_XP", echo |-> ZERO, reading |-> r] :
        r \in XPReadings \cup {Lowest(FIELDS_SERIES_XP, Type100kTR),
                               Widest(FIELDS_SERIES_XP, Type100kTR)}}
    \cup UNION {{[schema |-> "FIELDS_SERIES_000XI", echo |-> IndexCode(unit), reading |-> r] :
                    r \in UnitReadings(unit) \cup {Lowest(FIELDS_SERIES_000XI, Type8k(unit))}} :
                unit \in {1, 2, 3}}

\* the generic readings the codec is run on: the well-formed ones, the same
\* with another number of elements, one of a type whose layout the payload
\* does not have, and those of the unknown types
GenericReadings ==
    {[schema |-> "BASE_FIELDS_GENERIC", echo |-> 110, reading |-> r] :
        r \in WellFormedGeneric
               \cup {GenericReading(n, Type3X24, GenericTail) : n \in {17, 19, 23}}
               \cup {GenericReading(n, Type100kTR, GenericTail334) : n \in {13, 20}}
               \cup {GenericReading(n, <<49, 54, 48, 84, 82>>, GenericTail) : n \in {20, 23}}
               \cup {GenericReading(20, t, GenericTail) : t \in UnknownTypes}}

IsLegacy(schema) ==
    schema \in {"FIELDS_SERIES_00_02", "FIELDS_SERIES_XP", "FIELDS_SERIES_000XI"}

\* the bytes a changed byte is changed to: "0", "9", " ", "_" and "x"
MutationBytes == {ZERO, ZERO + 9, SP, UNDERSCORE, 120}

\* the place of the checksum field in a schema
ChecksumIndex(fields) ==
    Least({i \in 1..Len(fields) : fields[i].kind = "LegacyChecksum"})

\* the number of bytes the inverter sends before the checksum field: the
\* header and the value fields the checksum covers
PayloadEnd(schema, address, echo, reading) ==
    IF IsLegacy(schema)
    THEN Len(LegacyFrameFrom(Schema(schema), 1, ChecksumIndex(Schema(schema)) - 1, reading,
                             Header(address, echo)))
    ELSE Len(GenericFrameOf(address, reading)) - 6

\* the frame the inverter sends for a reading
Frame(schema, address, echo, reading) ==
    IF IsLegacy(schema) THEN LegacyFrame(schema, address, echo, reading)
    ELSE GenericFrameOf(address, reading)

NoResult == ParseResult(FALSE, EmptyDict, NoError, Port(<<>>), NoneInt, NoneInt, 0)

Probe(stage, given, annotate, frame, payload_end, at, result) ==
    [stage |-> stage, schema |-> given.schema, echo |-> given.echo,
     reading |-> given.reading, annotate |-> annotate, frame |-> frame,
     payload_end |-> payload_end, at |-> at, result |-> result]

CodecInit ==
    /\ client \in {NewClient(a) : a \in Addresses}
    /\ call = NoCall(client)
    /\ probe \in {Probe("reading", given, annotate, <<>>, 0, NoneInt, NoResult) :
                    given \in Readings \cup GenericReadings, annotate \in BOOLEAN}
    /\ line = "quiet"
    /\ host = NoHost

\* the inverter lays the reading out as a frame
Encode ==
    /\ probe.stage = "reading"
    /\ probe' = [probe EXCEPT
                    !.stage = "frame",
                    !.frame = Frame(probe.schema, client.address, probe.echo,
                                    probe.reading),
                    !.payload_end = PayloadEnd(probe.schema, client.address, probe.echo,
                                               probe.reading)]
    /\ UNCHANGED <<client, call, line, host>>

\* one byte between the first byte of the frame and the checksum or CRC
\* field is changed on the line; the checksum or CRC is left as it is
Mutate ==
    /\ probe.stage = "frame"
    /\ ~probe.annotate
    /\ \E at \in 1..(probe.payload_end - 1) :
        \E byte \in MutationBytes \ {At(probe.frame, at)} :
            probe' = [probe EXCEPT !.stage = "mutated",
                                   !.frame = Replaced(probe.frame, at, byte),
                                   !.at = at]
    /\ UNCHANGED <<client, call, line, host>>

\* self._parse_fields(schema, frame, annotate) on the frame as a whole
Decode ==
    /\ probe.stage \in {"frame", "mutated"}
    /\ probe' = [probe EXCEPT
                    !.stage = "decoded",
                    !.result = _parse_fields(Schema(probe.schema), probe.frame,
                                             probe.annotate, Port(<<>>))]
    /\ UNCHANGED <<client, call, line, host>>

CodecNext == Encode \/ Mutate \/ Decode

CodecSpec == CodecInit /\ [][CodecNext]_vars

(***************************************************************************)
(* What a call did, read off the record the state keeps of it.             *)
(***************************************************************************)
\* the command characters the client wrote, in order: the fourth byte of
\* every write of _send_command
Commands(port) ==
    LET writes == SelectSeq(port.ops, LAMBDA o : o.op = "write")
    IN  [i \in 1..Len(writes) |-> writes[i].data[4]]

\* the first response of the call passes _send_command and echoes this command
Echoed(c, echo) ==
    LET sent == _send_command(c.before.address, Port(c.script), ZERO)
    IN  sent.ok /\ sent.command = echo

\* the dispatcher state of a client: _is_000xi is looked at first
\* (query_readings), then _infered_standard_fields
Family(c) ==
    IF c._is_000xi THEN "Legacy000xi"
    ELSE IF c._infered_standard_fields = "FIELDS_SERIES_00_02" THEN "LegacyStandard"
    ELSE IF c._infered_standard_fields = "FIELDS_SERIES_XP" THEN "LegacyXP"
    ELSE "Unknown"

IsPrefix(s, t) == Len(s) <= Len(t) /\ s = SubSeq(t, 1, Len(s))

\* the reads of a call that follow a read directly, with no command between
ExtraReads(ops) ==
    Cardinality({i \in 2..Len(ops) : ops[i].op = "read_until" /\ ops[i - 1].op = "read_until"})

\* the reads the decode attempts of a call made
RECURSIVE AttemptReads(_)
AttemptReads(attempts) ==
    IF attempts = <<>> THEN 0 ELSE Head(attempts).reads + AttemptReads(Tail(attempts))

\* the replies of a script with every frame in one piece: a piece that does
\* not begin with the start byte "\n" belongs to the piece before it
RECURSIVE Undivided(_)
Joined(reply, rest) ==
    IF rest # <<>> /\ Head(rest).fault = "" /\ reply.fault = ""
       /\ Head(rest).bytes # <<>> /\ Head(Head(rest).bytes) # LF
    THEN <<Reply("", reply.bytes \o Head(rest).bytes)>> \o Tail(rest)
    ELSE <<reply>> \o rest
Undivided(script) ==
    IF script = <<>> THEN <<>> ELSE Joined(Head(script), Undivided(Tail(script)))

\* the keys of a legacy record, in the order of the frame
LegacyKeys(schema) ==
    <<"status", "dc_voltage", "dc_current", "dc_power", "ac_voltage", "ac_current",
      "ac_power", "device_temperature", "daily_yield", "inverter_type">>
    \o (IF schema = "FIELDS_SERIES_XP" THEN <<"total_yield">> ELSE <<>>)

\* the value a reading has under a key of the record
ReadingValue(key, reading) ==
    CASE key \in {"dc_voltage", "ac_voltage"} -> FloatV(reading[key], 1)
      [] key \in {"dc_current", "ac_current"} -> FloatV(reading[key], 2)
      [] key = "inverter_type" -> StrV(reading[key])
      [] OTHER -> IntV(reading[key])

\* the keys of sub-unit index in the combined record
UnitKeys(index, data_dict) ==
    [j \in 1..Len(data_dict) |-> index \o "_" \o data_dict[j].key]

(***************************************************************************)
(* Properties                                                              *)
(***************************************************************************)

C2_TrialOrder ==
    (call.op = "query_readings" /\ Family(call.before) = "Unknown" /\ Echoed(call, ZERO)) =>
        LET a == call.out.attempts
            sent == _send_command(call.before.address, Port(call.script), ZERO)
            first == _parse_fields(FIELDS_SERIES_00_02, sent.response, call.annotate,
                                   sent.port)
        IN  /\ Len(a) \in {1, 2}
            /\ a[1] = Attempt("FIELDS_SERIES_00_02", first)
            /\ (Len(a) = 2) = ~a[1].ok
            /\ Len(a) = 2 =>
                a[2] = Attempt("FIELDS_SERIES_XP",
                               _parse_fields(FIELDS_SERIES_XP, sent.response,
                                             call.annotate, first.port))
            /\ call.out.ok = a[Len(a)].ok
            /\ call.out.ok => call.out.value = a[Len(a)].data_dict
            /\ ~client._is_000xi
            /\ client._infered_standard_fields
                = (IF a[Len(a)].ok THEN a[Len(a)].schema ELSE NoFields)

C2_Witness ==
    /\ call.op = "query_readings"
    /\ Family(call.before) = "Unknown"
    /\ Echoed(call, ZERO)
    /\ Len(call.out.attempts) = 2
    /\ ~call.out.attempts[1].ok
    /\ call.out.attempts[2].ok
    /\ client._infered_standard_fields = "FIELDS_SERIES_XP"

\* C3: once a schema is cached, every later query_readings call of the client
\* keeps it cached and attempts neither of the two trial schemas but the
\* cached one; a call whose response echoes "0" makes one attempt, with the
\* cached schema, and fails when that attempt fails.
C3_CachedSchemaOnly ==
    [][(call'.op = "query_readings" /\ client._infered_standard_fields # NoFields) =>
        /\ client'._infered_standard_fields = client._infered_standard_fields
        /\ \A i \in 1..Len(call'.out.attempts) :
            call'.out.attempts[i].schema \in {"FIELDS_SERIES_00_02", "FIELDS_SERIES_XP"}
                => call'.out.attempts[i].schema = client._infered_standard_fields
        /\ (~client._is_000xi /\ Echoed(call', ZERO)) =>
            /\ Len(call'.out.attempts) = 1
            /\ call'.out.attempts[1].schema = client._infered_standard_fields
            /\ call'.out.ok = call'.out.attempts[1].ok]_vars

\* a client with FIELDS_SERIES_00_02 cached got a frame that only
\* FIELDS_SERIES_XP decodes, and failed
C3_Witness ==
    /\ call.op = "query_readings"
    /\ call.before._infered_standard_fields = "FIELDS_SERIES_00_02"
    /\ ~call.before._is_000xi
    /\ Echoed(call, ZERO)
    /\ ~call.out.ok
    /\ Len(call.out.attempts) = 1
    /\ _parse_fields(FIELDS_SERIES_XP, call.script[1].bytes, FALSE, Port(<<>>)).ok
    /\ client._infered_standard_fields = "FIELDS_SERIES_00_02"

\* C4: once _is_000xi is set, every later query_readings call of the client
\* writes only the sub-unit commands "1", "2", "3", in that order and never
\* "0", and the flag stays set.
C4_DirectSubUnits ==
    [][(client._is_000xi /\ call'.op # "__init__") =>
        /\ client'._is_000xi
        /\ call'.op = "query_readings" =>
            /\ IsPrefix(Commands(call'.out.port), <<IndexCode(1), IndexCode(2), IndexCode(3)>>)
            /\ call'.out.ok => Len(Commands(call'.out.port)) = 3]_vars

C4_Witness ==
    /\ call.op = "query_readings"
    /\ call.before._is_000xi
    /\ call.out.ok
    /\ Commands(call.out.port) = <<IndexCode(1), IndexCode(2), IndexCode(3)>>
    /\ client._is_000xi

\* C5: a successful 000xi reading wrote the commands "1", "2", "3" in that
\* order (after the "0" that was answered "4", on a client not yet known as
\* 000xi), decoded each response with FIELDS_SERIES_000XI, and returns the
\* keys of sub-unit i as "i_k" with the values decoded for it, in order,
\* then inverter_type = "3x" + the type of unit 1 without its last
\* character, and nothing else.
C5_Combined ==
    (/\ call.op = "query_readings"
     /\ call.out.ok
     /\ (call.before._is_000xi \/ Echoed(call, ZERO + 4))) =>
        LET a == call.out.attempts
            type == a[1].data_dict[10].value.s
        IN  /\ Commands(call.out.port)
                = (IF call.before._is_000xi THEN <<>> ELSE <<ZERO>>)
                    \o <<IndexCode(1), IndexCode(2), IndexCode(3)>>
            /\ Len(a) = 3
            /\ \A i \in 1..3 :
                /\ a[i].schema = "FIELDS_SERIES_000XI"
                /\ a[i].ok
                /\ Keys(a[i].data_dict) = LegacyKeys("FIELDS_SERIES_000XI")
                /\ \A j \in 1..10 :
                    call.out.value[10 * (i - 1) + j]
                        = [key |-> UnitKeys(Indexes[i], a[i].data_dict)[j],
                           value |-> a[i].data_dict[j].value]
            /\ Len(call.out.value) = 31
            /\ call.out.value[31]
                = [key |-> "inverter_type",
                   value |-> StrV(<<51, 120>> \o SubSeq(type, 1, Len(type) - 1))]

\* units typed 8k1, 8k2, 8k3 give "3x8k"
C5_Witness ==
    /\ call.op = "query_readings"
    /\ call.out.ok
    /\ ~call.before._is_000xi
    /\ Echoed(call, ZERO + 4)
    /\ Len(call.out.value) = 31
    /\ call.out.value[10] = [key |-> "1_inverter_type", value |-> StrV(<<56, 107, 49>>)]
    /\ call.out.value[19] = [key |-> "2_daily_yield", value |-> IntV(105)]
    /\ call.out.value[30] = [key |-> "3_inverter_type", value |-> StrV(<<56, 107, 51>>)]
    /\ call.out.value[31] = [key |-> "inverter_type", value |-> StrV(<<51, 120, 56, 107>>)]

\* C6: a decode attempt reads on exactly when the cursor right after the
\* checksum field is the length of the frame buffered so far, and then once;
\* such a read follows a read directly (no reset, no write, no flush), and
\* the call makes no other read of that kind; a call that succeeded on a
\* frame that came in pieces returns what it returns on the frame in one
\* piece.
C6_SplitFrame ==
    (call.op \in {"query_readings", "query_serial_number"}) =>
        LET a == call.out.attempts
            ops == call.out.port.ops
        IN  /\ \A i \in 1..Len(a) :
                a[i].reads = (IF a[i].checksum_end # NoneInt
                                 /\ a[i].checksum_end = a[i].buffered
                              THEN 1 ELSE 0)
            /\ ExtraReads(ops) = AttemptReads(a)
            /\ \A i \in 1..Len(ops) :
                ops[i].op = "read_until" =>
                    i > 1 /\ ops[i - 1].op \in {"flush", "read_until"}
            /\ (call.op = "query_readings" /\ call.out.ok /\ AttemptReads(a) > 0) =>
                LET whole == query_readings(call.before, Port(Undivided(call.script)),
                                            call.annotate)
                IN  /\ Len(Undivided(call.script)) < Len(call.script)
                    /\ ~whole.port.starved
                    /\ whole.ok
                    /\ whole.value = call.out.value
                    /\ whole.client = call.out.client

\* the frame of tests/test_client.py came in two pieces, the first ending
\* with its checksum byte "\r"
C6_Witness ==
    /\ call.op = "query_readings"
    /\ call.out.ok
    /\ Len(call.script) = 2
    /\ call.script[1].bytes[Len(call.script[1].bytes)] = CR
    /\ Len(call.out.attempts) = 2
    /\ call.out.attempts[2].reads = 1
    /\ call.out.attempts[2].checksum_end = Len(call.script[1].bytes)
    /\ Get(call.out.value, "total_yield") = IntV(123456789)
    /\ ExtraReads(call.out.port.ops) = 1

\* C7: a query_readings call that fails, a successful generic ("n") query and
\* every query_serial_number call leave _infered_standard_fields and
\* _is_000xi as they were before the call.
C7_CacheKept ==
    (\/ call.op = "query_readings" /\ ~call.out.ok
     \/ call.op = "query_readings" /\ call.out.ok /\ ~call.before._is_000xi
            /\ Echoed(call, 110)
     \/ call.op = "query_serial_number") =>
        /\ call.out.client = call.before
        /\ client = call.before

\* both trial schemas failed on a client with nothing cached
C7_Witness ==
    /\ call.op = "query_readings"
    /\ ~call.out.ok
    /\ Family(call.before) = "Unknown"
    /\ Len(call.out.attempts) = 2
    /\ call.out.attempts[2].schema = "FIELDS_SERIES_XP"
    /\ client = call.before

\* C8 as stated: a "0" query answered with echo "4" leaves the client
\* flagged as 000xi, also when one of the sub-unit queries that follow
\* fails.
C8_DetectionCached ==
    (call.op = "query_readings" /\ ~call.before._is_000xi /\ Echoed(call, ZERO + 4)) =>
        client._is_000xi

\* C8 as the code has it: a "0" query answered with echo "4" sets _is_000xi
\* exactly when all three sub-unit queries that follow succeed; when one of
\* them fails the flag stays false and the next call writes "0" first
\* again.  Once the flag is set, a failing call leaves it set and the next
\* call writes "1" first.
C8_CachedOnSuccess ==
    [][call'.op = "query_readings" =>
        /\ (~client._is_000xi /\ Echoed(call', ZERO + 4)) =>
            /\ client'._is_000xi = call'.out.ok
            /\ call'.out.ok = (/\ Len(call'.out.attempts) = 3
                               /\ \A i \in 1..3 : call'.out.attempts[i].ok)
        /\ client._is_000xi => client'._is_000xi
        /\ Commands(call'.out.port) # <<>> =>
            Commands(call'.out.port)[1] = (IF client._is_000xi THEN IndexCode(1) ELSE ZERO)]_vars

\* the "0" was answered "4", sub-unit 1 was decoded, a later sub-unit query
\* failed
C8_Witness ==
    /\ call.op = "query_readings"
    /\ ~call.before._is_000xi
    /\ Echoed(call, ZERO + 4)
    /\ ~call.out.ok
    /\ Len(call.out.attempts) >= 1
    /\ call.out.attempts[1].ok
    /\ ~client._is_000xi

\* C9 as stated: once the family of a client is LegacyStandard, LegacyXP or
\* Legacy000xi, no call replaces it by another.
C9_FamilyTerminal ==
    [][(call'.op # "__init__" /\ Family(client) # "Unknown") =>
        Family(client') = Family(client)]_vars

\* C9 as the code has it: _is_000xi, once set, stays set, and
\* _infered_standard_fields, once set, keeps its schema; the family of a
\* client changes only from Unknown, or from LegacyStandard or LegacyXP to
\* Legacy000xi by a query_readings call whose "0" was answered "4" and whose
\* three sub-unit queries succeeded.
C9_FamilyMoves ==
    [][call'.op # "__init__" =>
        /\ client._is_000xi => client'._is_000xi
        /\ client._infered_standard_fields # NoFields =>
            client'._infered_standard_fields = client._infered_standard_fields
        /\ Family(client') # Family(client) =>
            \/ Family(client) = "Unknown"
            \/ /\ Family(client') = "Legacy000xi"
               /\ call'.op = "query_readings"
               /\ call'.out.ok
               /\ Echoed(call', ZERO + 4)]_vars

\* a client with FIELDS_SERIES_00_02 cached became a 000xi client
C9_Witness ==
    /\ call.op = "query_readings"
    /\ Family(call.before) = "LegacyStandard"
    /\ Family(client) = "Legacy000xi"
    /\ client._infered_standard_fields = "FIELDS_SERIES_00_02"

\* C10 as stated: the frame as sent decodes; with one byte of its payload
\* changed and the checksum byte left alone, decoding fails with a checksum
\* mismatch.
C10_ChecksumMismatch ==
    (probe.stage = "decoded" /\ IsLegacy(probe.schema)) =>
        IF probe.at = NoneInt THEN probe.result.ok
        ELSE ~probe.result.ok /\ probe.result.err.cause = "Expected checksum"

\* C10 as the code has it: the frame as sent decodes; with one byte of its
\* payload changed and the checksum byte left alone, decoding fails, with
\* a checksum mismatch exactly when the fields before the checksum field
\* still decode, and with the error of the first field that does not
\* otherwise.
C10_ChangedByteRejected ==
    (probe.stage = "decoded" /\ IsLegacy(probe.schema)) =>
        IF probe.at = NoneInt THEN probe.result.ok
        ELSE LET before == _parse_fields(SubSeq(Schema(probe.schema), 1,
                                                ChecksumIndex(Schema(probe.schema)) - 1),
                                         probe.frame, probe.annotate, Port(<<>>))
             IN  /\ ~probe.result.ok
                 /\ probe.result.err.exc = "ProtocolException"
                 /\ (probe.result.err.cause = "Expected checksum") = before.ok
                 /\ ~before.ok => probe.result.err = before.err

\* a byte was changed to a digit: every field decodes and the checksum
\* catches the change
C10_Witness ==
    /\ probe.stage = "decoded"
    /\ probe.at # NoneInt
    /\ IsDigit(At(probe.frame, probe.at))
    /\ ~probe.result.ok
    /\ probe.result.err.cause = "Expected checksum"

\* the loop of _parse_fields over the fields of the generic frame in front
\* of the CRC field
BeforeCrc(frame, annotate) ==
    ParseFrom(BASE_FIELDS_GENERIC, 0, Len(BASE_FIELDS_GENERIC) - 1,
              Parsing(TRUE, frame, 0, EmptyDict, NoError, Port(<<>>), NoneInt, NoneInt, 0),
              annotate)

\* C11 as stated: a well-formed generic frame decodes as it was sent; with
\* one byte between its start and its CRC field changed and the four CRC
\* digits left alone, decoding fails with a CRC mismatch.
C11_CrcMismatch ==
    (probe.stage = "decoded" /\ probe.schema = "BASE_FIELDS_GENERIC"
     /\ probe.reading \in WellFormedGeneric) =>
        IF probe.at = NoneInt THEN probe.result.ok
        ELSE ~probe.result.ok /\ probe.result.err.cause = "Expected CRC"

\* C11 as the code has it: a well-formed generic frame (that of the tests
\* among them) decodes as it was sent; with one byte between its start and
\* its CRC field changed and the four CRC digits left alone, decoding fails
\* with a protocol error: with the error of the first field in front of the
\* CRC field that does not decode, and with a CRC mismatch when these fields
\* all decode and end where the CRC field is.
C11_ChangedByteRejected ==
    /\ (probe.stage = "frame" /\ probe.schema = "BASE_FIELDS_GENERIC"
         /\ probe.reading = GenericReading(20, Type3X24, GenericTail)) =>
            probe.frame = GenericFrame(client.address)
    /\ (probe.stage = "decoded" /\ probe.schema = "BASE_FIELDS_GENERIC"
         /\ probe.reading \in WellFormedGeneric) =>
            IF probe.at = NoneInt THEN probe.result.ok
            ELSE LET before == BeforeCrc(probe.frame, probe.annotate)
                 IN  /\ ~probe.result.ok
                     /\ probe.result.err.exc = "ProtocolException"
                     /\ ~before.ok => probe.result.err = before.err
                     /\ (before.ok /\ before.position = probe.payload_end) =>
                            /\ probe.result.err.cause = "Expected CRC"
                            /\ probe.result.err.detail[1] # probe.result.err.detail[2]

\* a digit of the payload was changed to another digit: every field decodes
\* and the CRC catches the change
C11_Witness ==
    /\ probe.stage = "decoded"
    /\ probe.schema = "BASE_FIELDS_GENERIC"
    /\ probe.reading \in WellFormedGeneric
    /\ probe.at # NoneInt
    /\ probe.at > 12
    /\ IsDigit(At(probe.frame, probe.at))
    /\ ~probe.result.ok
    /\ probe.result.err.cause = "Expected CRC"

\* the place of the checksum or CRC field in a schema
GuardIndex(fields) ==
    Least({i \in 1..Len(fields) : fields[i].kind \in {"LegacyChecksum", "CrcAndStop"}})

\* the loop of _parse_fields over the fields in front of the checksum or CRC
\* field
BeforeGuard(schema, frame, annotate) ==
    ParseFrom(Schema(schema), 0, GuardIndex(Schema(schema)) - 1,
              Parsing(TRUE, frame, 0, EmptyDict, NoError, Port(<<>>), NoneInt, NoneInt, 0),
              annotate)

\* the CRC-16/X25 of frame[from:to]
CrcOver(frame, from, to) == Xor(CrcFold(frame, from, to, X25_MASK), X25_MASK)

\* r, the read of the legacy checksum field at position, goes by the sum of
\* frame[from:to] modulo 256: it fails exactly when the checksum byte is
\* another value, with an error that has the byte and the sum
SumCompared(frame, position, from, to, r) ==
    (HasRemaining(frame, position, 2) /\ At(frame, position) = SP) =>
        IF SumOf(frame, from + 1, to) % 256 = At(frame, position + 1)
        THEN r.ok
        ELSE r = ReadFail(ProtocolException("Expected checksum",
                            <<At(frame, position + 1), SumOf(frame, from + 1, to) % 256>>))

\* r, the read of the CRC field at position, goes by the CRC of
\* frame[from:to]: it fails with a CRC mismatch exactly when the four digits
\* are another value, with an error that has both values
CrcCompared(frame, position, from, to, r) ==
    (/\ HasRemaining(frame, position, 6) /\ At(frame, position) = SP
     /\ IsAscii(Slice(frame, position + 1, position + 5))
     /\ PyIntHex(Slice(frame, position + 1, position + 5)).ok) =>
        IF CrcOver(frame, from, to) # PyIntHex(Slice(frame, position + 1, position + 5)).n
        THEN r = ReadFail(ProtocolException("Expected CRC",
                            <<PyIntHex(Slice(frame, position + 1, position + 5)).n,
                              CrcOver(frame, from, to)>>))
        ELSE r.ok \/ r.err.cause # "Expected CRC"

\* the checksum or CRC field of the probe's schema read where the fields in
\* front of it ended in the state before
GuardRead(before) ==
    Read(Schema(probe.schema)[GuardIndex(Schema(probe.schema))], probe.frame,
         before.position, before.data_dict, probe.annotate)

\* C12 as stated: the checksum and the CRC are taken over the bytes between
\* the 5-byte start marker and the checksum or CRC field, without either:
\* frame[5 : position], the field beginning at position.
C12_BetweenMarkerAndField ==
    probe.stage = "decoded" =>
        LET before == BeforeGuard(probe.schema, probe.frame, probe.annotate)
        IN  before.ok =>
                IF IsLegacy(probe.schema)
                THEN SumCompared(probe.frame, before.position, 5, before.position,
                                 GuardRead(before))
                ELSE CrcCompared(probe.frame, before.position, 5, before.position,
                                 GuardRead(before))

\* C12 as the code has it: the checksum and the CRC are taken over the bytes
\* from the second byte of the frame (the "*" of the start marker) up to and
\* with the space the checksum or CRC field begins with, frame[1 : position
\* + 1]; the legacy value is their sum modulo 256; a mismatch fails the
\* decode with an error that has the value in the frame and the value
\* computed.
C12_CoveredBytes ==
    probe.stage = "decoded" =>
        LET before == BeforeGuard(probe.schema, probe.frame, probe.annotate)
        IN  before.ok =>
                /\ IF IsLegacy(probe.schema)
                   THEN SumCompared(probe.frame, before.position, 1, before.position + 1,
                                    GuardRead(before))
                   ELSE CrcCompared(probe.frame, before.position, 1, before.position + 1,
                                    GuardRead(before))
                /\ ~GuardRead(before).ok =>
                        /\ ~probe.result.ok
                        /\ probe.result.err = GuardRead(before).err

\* the standard frame of the tests (its checksum byte is 0x92 at address 3)
\* with a digit changed: the error has 146 and the sum of the changed frame
C12_Witness ==
    /\ probe.stage = "decoded"
    /\ probe.schema = "FIELDS_SERIES_00_02"
    /\ probe.reading = StandardReading
    /\ client.address = 3
    /\ probe.at # NoneInt
    /\ ~probe.result.ok
    /\ probe.result.err.cause = "Expected checksum"
    /\ probe.result.err.detail[1] = 146
    /\ probe.result.err.detail[2] = LegacyChecksum(probe.frame, probe.payload_end)
    /\ probe.result.err.detail[2] # 146

\* the loop of _parse_fields over the start, the number of elements, the
\* type and the status of a generic frame
Envelope(frame, annotate) ==
    ParseFrom(BASE_FIELDS_GENERIC, 0, 4,
              Parsing(TRUE, frame, 0, EmptyDict, NoError, Port(<<>>), NoneInt, NoneInt, 0),
              annotate)

\* the number of elements and the type a generic frame declares
Declared(envelope) == Plain(Get(envelope.data_dict, "number_of_elements")).n
TypeOf(envelope) == Plain(Get(envelope.data_dict, "inverter_type")).s

\* C13: a generic frame whose type resolves to a layout and whose number of
\* elements is not the length of that layout plus 3 fails to decode with
\* the error that has the expected and the declared number, whatever its
\* payload is (a payload with a byte no field accepts included): the
\* numbers are compared before the first field of the layout is read.
C13_ElementCount ==
    (probe.stage = "decoded" /\ probe.schema = "BASE_FIELDS_GENERIC") =>
        LET envelope == Envelope(probe.frame, probe.annotate)
        IN  (/\ envelope.ok
             /\ _resolve_subfields(TypeOf(envelope)) # <<>>
             /\ Len(_resolve_subfields(TypeOf(envelope))) + 3 # Declared(envelope)) =>
                /\ ~probe.result.ok
                /\ probe.result.err
                     = ProtocolException("Expected elements",
                            <<Len(_resolve_subfields(TypeOf(envelope))) + 3,
                              Declared(envelope)>>)

\* a frame of type 3X24 that declares 19 elements, with a digit of its
\* payload changed to "x": the error is that of the numbers, 20 and 19
C13_Witness ==
    /\ probe.stage = "decoded"
    /\ probe.schema = "BASE_FIELDS_GENERIC"
    /\ probe.reading = GenericReading(19, Type3X24, GenericTail)
    /\ probe.at # NoneInt
    /\ probe.at > Envelope(probe.frame, probe.annotate).position
    /\ At(probe.frame, probe.at) = 120
    /\ ~probe.result.ok
    /\ probe.result.err = ProtocolException("Expected elements", <<20, 19>>)

\* the type codes of the five sets
KnownTypes ==
    _GENERIC_SCHMEMA_331_TYPES \cup _GENERIC_SCHMEMA_332_TYPES
    \cup _GENERIC_SCHMEMA_333_TYPES \cup _GENERIC_SCHMEMA_334_TYPES
    \cup _GENERIC_SCHMEMA_335_TYPES

\* the sets of type codes by the layout _resolve_subfields gives them
TypesByLayout ==
    {_GENERIC_SCHMEMA_331_TYPES \cup _GENERIC_SCHMEMA_333_TYPES, _GENERIC_SCHMEMA_332_TYPES,
     _GENERIC_SCHMEMA_334_TYPES, _GENERIC_SCHMEMA_335_TYPES}

\* C14: a query_readings call that sent the command "0" and is answered
\* with a generic frame whose start, number of elements, type and status
\* decode fails with the error "Can not resolve field schema" and gives no
\* record exactly when the type string is in none of the sets of known type
\* codes, whatever legacy schema the client had cached before the call;
\* every known type code is in the sets of exactly one layout and resolves
\* to a layout.
C14_TypeResolution ==
    /\ \A type \in KnownTypes :
            /\ _resolve_subfields(type) # <<>>
            /\ Cardinality({types \in TypesByLayout : type \in types}) = 1
    /\ (call.op = "query_readings" /\ ~call.before._is_000xi /\ Echoed(call, 110)) =>
            LET sent == _send_command(call.before.address, Port(call.script), ZERO)
                envelope == Envelope(sent.response, call.annotate)
            IN  envelope.ok =>
                    IF TypeOf(envelope) \in KnownTypes
                    THEN call.out.err.cause # "Can not resolve field schema"
                    ELSE /\ ~call.out.ok
                         /\ call.out.value = EmptyDict
                         /\ call.out.err
                              = ProtocolException("Can not resolve field schema", <<>>)

\* a client that had cached the XP schema is answered with a generic frame
\* of the type "3x24"
C14_Witness ==
    /\ call.op = "query_readings"
    /\ call.before._infered_standard_fields = "FIELDS_SERIES_XP"
    /\ Echoed(call, 110)
    /\ call.script[1].bytes = Replaced(GenericFrame(call.before.address), 10, 120)
    /\ ~call.out.ok
    /\ call.out.err = ProtocolException("Can not resolve field schema", <<>>)

\* the place in the operations of a port of its j-th read_until
ReadIndex(ops, j) ==
    Least({i \in 1..Len(ops) :
              /\ ops[i].op = "read_until"
              /\ Cardinality({k \in 1..i : ops[k].op = "read_until"}) = j})

\* the j-th reply of a call was read as the response to a command, by the
\* read_until of _send_command
ResponseToCommand(c, j) ==
    /\ c.script[j].fault = ""
    /\ ReadIndex(c.out.port.ops, j) > 1
    /\ c.out.port.ops[ReadIndex(c.out.port.ops, j) - 1].op = "flush"

\* the address a response echoes: int(header[2:4])
EchoedAddress(response) == PyInt(Slice(response, 2, 4))

\* a response with a header that echoes an address other than address
FromOtherAddress(response, address) ==
    /\ HasRemaining(response, 0, 5)
    /\ IsAscii(Slice(response, 0, 5))
    /\ EchoedAddress(response).ok
    /\ EchoedAddress(response).n # address

\* the commands "1", "2" and "3" among the first n operations of a port
UnitWrites(ops, n) ==
    Cardinality({i \in 1..n : ops[i].op = "write" /\ ops[i].data[4] \in {49, 50, 51}})

\* C15: whatever command a call sent (the readings query "0", the query of
\* a 000xi sub-unit, the serial-number query "s"), a response to it that
\* echoes another address than the client's ends the call there with the
\* error that has both addresses: the read of that response is the last
\* operation on the port, and the only decode attempts of the call are
\* those of the sub-unit responses before it.
C15_AddressChecked ==
    call.op \in {"query_readings", "query_serial_number"} =>
        \A j \in 1..Len(call.script) :
            (/\ ResponseToCommand(call, j)
             /\ FromOtherAddress(call.script[j].bytes, call.before.address)) =>
                /\ j = Len(call.script)
                /\ ReadIndex(call.out.port.ops, j) = Len(call.out.port.ops)
                /\ ~call.out.ok
                /\ call.out.err
                     = ProtocolException("Expected response from",
                            <<call.before.address, EchoedAddress(call.script[j].bytes).n>>)
                /\ Len(call.out.attempts)
                     = UnitWrites(call.out.port.ops, Len(call.out.port.ops) - 3)
                /\ call.out.client = call.before

\* the query of the second sub-unit is answered from another address
C15_Witness ==
    /\ call.op = "query_readings"
    /\ Len(call.script) >= 2
    /\ Commands(call.out.port)[Len(Commands(call.out.port))] = 50
    /\ FromOtherAddress(call.script[Len(call.script)].bytes, call.before.address)
    /\ ~call.out.ok
    /\ call.out.err.cause = "Expected response from"
    /\ Len(call.out.attempts) = 1

\* the operations of _send_command on the port when none of them fails
OneExchange(address, command) ==
    <<Op("reset_input_buffer", <<>>), Op("write", CommandBytes(address, command)),
      Op("flush", <<>>), Op("read_until", <<CR>>)>>

\* C16: a query_readings call that sent "0" and whose response passes
\* _send_command with an echoed command other than "0", "4" and "n" fails
\* with the error "Expected '0', '4' or 'n' command response"; it made no
\* decode attempt and no operation on the port after the read of that
\* response, and it leaves the client as it was.
C16_UnexpectedEcho ==
    (call.op = "query_readings" /\ ~call.before._is_000xi) =>
        LET sent == _send_command(call.before.address, Port(call.script), ZERO)
        IN  (sent.ok /\ sent.command \notin {ZERO, ZERO + 4, 110}) =>
                /\ ~call.out.ok
                /\ call.out.err
                     = ProtocolException("Expected '0', '4' or 'n' command response",
                                         <<sent.command>>)
                /\ call.out.attempts = <<>>
                /\ call.out.port.ops = OneExchange(call.before.address, ZERO)
                /\ Len(call.script) = 1
                /\ call.out.client = call.before

\* the response to "0" is the frame of a serial number, echo "s"
C16_Witness ==
    /\ call.op = "query_readings"
    /\ ~call.before._is_000xi
    /\ call.script = <<Reply("", SerialFrame(call.before.address))>>
    /\ ~call.out.ok
    /\ call.out.err.cause = "Expected '0', '4' or 'n' command response"
    /\ call.out.err.detail = <<115>>

\* the last response of a call was read by _send_command for the query of a
\* sub-unit and passes it with an echo other than the index asked for
UnitEchoMismatch(c) ==
    /\ c.script # <<>>
    /\ ResponseToCommand(c, Len(c.script))
    /\ Commands(c.out.port)[Len(Commands(c.out.port))] \in {49, 50, 51}
    /\ CheckHeader(c.before.address, Port(<<>>), c.script[Len(c.script)].bytes).ok
    /\ At(c.script[Len(c.script)].bytes, 4)
         # Commands(c.out.port)[Len(Commands(c.out.port))]

\* C17 as stated: every failing query_readings and query_serial_number call
\* fails with a ProtocolException that carries a cause, the call whose
\* sub-unit response echoes another command than the index asked for
\* included.
C17_SingleErrorKind ==
    (call.op \in {"query_readings", "query_serial_number"} /\ ~call.out.ok) =>
        /\ call.out.err.exc = "ProtocolException"
        /\ call.out.err.cause # ""

\* C17 as the code has it: a failing call fails with a ProtocolException
\* that carries a cause, except when the response to a sub-unit query
\* echoes another command than the index asked for: then the assert of
\* _query_000xi_readings fails, and the call ends with an AssertionError
\* without a message.
C17_ErrorKinds ==
    (call.op \in {"query_readings", "query_serial_number"} /\ ~call.out.ok) =>
        IF call.op = "query_readings" /\ UnitEchoMismatch(call)
        THEN call.out.err = OtherException("AssertionError")
        ELSE /\ call.out.err.exc = "ProtocolException"
             /\ call.out.err.cause # ""

\* the response to "0" echoes "4" and the response to "1" echoes "2"
C17_Witness ==
    /\ call.op = "query_readings"
    /\ Len(call.script) = 2
    /\ Commands(call.out.port) = <<ZERO, 49>>
    /\ HasRemaining(call.script[2].bytes, 0, 5)
    /\ At(call.script[2].bytes, 4) = 50
    /\ ~call.out.ok
    /\ call.out.err.exc = "AssertionError"

\* the read_until calls among the operations of a port
Reads(ops) == Cardinality({i \in 1..Len(ops) : ops[i].op = "read_until"})

\* the last thing the port did in a call was to raise a SerialException in
\* _send_command: in reset_input_buffer, write or flush (then the read did
\* not take place), or in the read_until after the flush
SendFault(c) ==
    /\ c.script # <<>>
    /\ \/ /\ c.script[Len(c.script)].fault \in {"reset_input_buffer", "write", "flush"}
          /\ Reads(c.out.port.ops) < Len(c.script)
       \/ /\ c.script[Len(c.script)].fault = "read_until"
          /\ c.out.port.ops[Len(c.out.port.ops) - 1].op = "flush"

\* the j-th thing the port did in a call was to raise a SerialException in
\* the read_until of _parse_fields, which reads on behind the checksum byte
ExtraReadFault(c, j) ==
    /\ c.script[j].fault = "read_until"
    /\ c.out.port.ops[ReadIndex(c.out.port.ops, j) - 1].op = "read_until"

\* C18: a call in which reset_input_buffer, write, flush or read_until of
\* _send_command raised a SerialException fails with the ProtocolException
\* "Serial port error"; a call in which the read_until of _parse_fields
\* raised one fails with a ProtocolException as well: with "Serial port
\* error", or, when the read was made by the first of the two trial decodes,
\* with the error of the second.
C18_TransportFaults ==
    call.op \in {"query_readings", "query_serial_number"} =>
        /\ SendFault(call) => (~call.out.ok /\ call.out.err = SerialPortError)
        /\ \A j \in 1..Len(call.script) :
            ExtraReadFault(call, j) =>
                /\ ~call.out.ok
                /\ call.out.err.exc = "ProtocolException"
                /\ call.out.err.cause # ""
                /\ \/ call.out.err = SerialPortError
                   \/ /\ Len(call.out.attempts) = 2
                      /\ call.out.attempts[1].err = SerialPortError
                      /\ call.out.err = call.out.attempts[2].err

\* the read_until behind the checksum byte "\r" of a sub-unit frame raises
C18_Witness ==
    /\ call.op = "query_readings"
    /\ Len(call.script) >= 3
    /\ ExtraReadFault(call, Len(call.script))
    /\ Commands(call.out.port)[Len(Commands(call.out.port))] = 50
    /\ ~call.out.ok
    /\ call.out.err = SerialPortError

\* the error of the stop fields for bytes behind the "\r"
BehindStop == ProtocolException("Expected end-of-frame", <<>>)

\* bytes that end with "\r" and one more byte
HasTrailing(bytes) ==
    Len(bytes) >= 2 /\ bytes[Len(bytes) - 1] = CR /\ bytes[Len(bytes)] # CR

\* the script with the last byte of its last reply taken off
TrimLast(script) ==
    [script EXCEPT ![Len(script)].bytes = SubSeq(@, 1, Len(@) - 1)]

\* the call made again, by the same client as before it, on another script
Again(c, script) ==
    IF c.op = "query_readings"
    THEN query_readings(c.before, Port(script), c.annotate)
    ELSE query_serial_number(c.before, Port(script))

\* C19: in a call that succeeds every frame buffered (a response with what
\* the read_until behind a checksum byte appended to it) ends with "\r" as
\* its last byte. A call whose last read_until gave a byte behind the "\r"
\* fails; when the same call succeeds without that byte, the decode of the
\* frame fails with "Expected end-of-frame", which is the error of the call
\* unless the decode was the first of the two trial decodes: then it is the
\* error of the second.
C19_WholeFrame ==
    call.op \in {"query_readings", "query_serial_number"} =>
        /\ call.out.ok =>
            \A j \in 1..Len(Undivided(call.script)) :
                /\ Undivided(call.script)[j].bytes # <<>>
                /\ Undivided(call.script)[j].bytes[Len(Undivided(call.script)[j].bytes)] = CR
        /\ (/\ call.script # <<>>
            /\ call.script[Len(call.script)].fault = ""
            /\ HasTrailing(call.script[Len(call.script)].bytes)) =>
                /\ ~call.out.ok
                /\ Again(call, TrimLast(call.script)).ok =>
                        \/ call.out.err = BehindStop
                        \/ /\ Len(call.out.attempts) = 2
                           /\ call.out.attempts[1].err = BehindStop
                           /\ call.out.err = call.out.attempts[2].err

\* a client with the XP schema cached reads an XP frame in two pieces, the
\* second with a byte behind the "\r"
C19_Witness ==
    /\ call.op = "query_readings"
    /\ call.before._infered_standard_fields = "FIELDS_SERIES_XP"
    /\ Len(call.script) = 2
    /\ ExtraReads(call.out.port.ops) = 1
    /\ call.script[2].fault = ""
    /\ HasTrailing(call.script[2].bytes)
    /\ Again(call, TrimLast(call.script)).ok
    /\ ~call.out.ok
    /\ call.out.err = BehindStop

\* the operations of a call come in the order of _send_command: a write
\* right after a reset_input_buffer, a flush right after a write, a
\* read_until right after a flush or after another read_until, and a
\* reset_input_buffer first or right after a read_until
InOrder(ops) ==
    \A i \in 1..Len(ops) :
        CASE ops[i].op = "reset_input_buffer" -> i = 1 \/ ops[i - 1].op = "read_until"
          [] ops[i].op = "write" -> i > 1 /\ ops[i - 1].op = "reset_input_buffer"
          [] ops[i].op = "flush" -> i > 1 /\ ops[i - 1].op = "write"
          [] ops[i].op = "read_until" -> i > 1 /\ ops[i - 1].op \in {"flush", "read_until"}

\* between two writes of a call there is a read_until
ReadBetweenWrites(ops) ==
    \A i, k \in 1..Len(ops) :
        (i < k /\ ops[i].op = "write" /\ ops[k].op = "write") =>
            \E j \in (i + 1)..(k - 1) : ops[j].op = "read_until"

\* the call wrote a command
Wrote(c) == \E i \in 1..Len(c.out.port.ops) : c.out.port.ops[i].op = "write"

\* C20 as stated: the operations of every call on the port come in the
\* order reset_input_buffer, write, flush, read_until; every write comes
\* right after a reset; and between two writes, of one call or of one call
\* and the next, there is a read_until.
C20_AlwaysRead ==
    call.op \in {"query_readings", "query_serial_number"} =>
        /\ InOrder(call.out.port.ops)
        /\ ReadBetweenWrites(call.out.port.ops)
        /\ Wrote(call) => line = "quiet"

\* C20 as the code has it: the operations of every call on the port come
\* in the order reset_input_buffer, write, flush, read_until; every write
\* comes right after a reset; between two writes of one call there is a
\* read_until; and a call leaves its last command without a read_until
\* exactly when write or flush raised a SerialException for that command,
\* which ends the call with "Serial port error" - the next call then
\* writes its command after a reset, with no read_until in between.
C20_Exchange ==
    call.op \in {"query_readings", "query_serial_number"} =>
        /\ InOrder(call.out.port.ops)
        /\ ReadBetweenWrites(call.out.port.ops)
        /\ Unanswered(call.out.port.ops) <=>
                /\ call.script # <<>>
                /\ call.script[Len(call.script)].fault \in {"write", "flush"}
                /\ Reads(call.out.port.ops) < Len(call.script)
        /\ Unanswered(call.out.port.ops) =>
                (~call.out.ok /\ call.out.err = SerialPortError)

\* a call after one whose flush raised: its command is written, after a
\* reset, with no read_until since the command before
C20_Witness ==
    /\ call.op = "query_readings"
    /\ line = "unanswered"
    /\ Wrote(call)
    /\ call.out.ok
    /\ call.out.port.ops[1].op = "reset_input_buffer"
\* the commands a call writes when nothing fails: "s" for the serial number,
\* "1", "2", "3" with the 000xi state cached, "0" and then "1", "2", "3"
\* when the response to "0" echoes "4", "0" alone otherwise
ExpectedCommands(c) ==
    IF c.op = "query_serial_number" THEN <<115>>
    ELSE IF c.before._is_000xi THEN <<49, 50, 51>>
    ELSE IF Echoed(c, ZERO + 4) THEN <<ZERO, 49, 50, 51>>
    ELSE <<ZERO>>

\* the sub-unit frames of a call that decoded
UnitsDecoded(c) ==
    Cardinality({i \in 1..Len(c.out.attempts) :
                    /\ c.out.attempts[i].schema = "FIELDS_SERIES_000XI"
                    /\ c.out.attempts[i].ok})

\* the sub-unit commands among the commands of a call
UnitCommands(c) ==
    Cardinality({i \in 1..Len(Commands(c.out.port)) :
                    Commands(c.out.port)[i] \in {49, 50, 51}})

\* C21: a call never retries.  The commands a call writes are the first
\* ones of the sequence of its path ("s"; "0"; "1","2","3" with the 000xi
\* state cached; "0","1","2","3" when 000xi is detected), all of them when
\* the call succeeds; a call that stops earlier has failed, and it wrote at
\* most one sub-unit command after the last sub-unit frame that decoded, so
\* no command follows the first failure.
C21_NoRetry ==
    call.op \in {"query_readings", "query_serial_number"} =>
        /\ IsPrefix(Commands(call.out.port), ExpectedCommands(call))
        /\ call.out.ok => Commands(call.out.port) = ExpectedCommands(call)
        /\ Commands(call.out.port) # ExpectedCommands(call) => ~call.out.ok
        /\ UnitCommands(call) <= UnitsDecoded(call) + 1
        /\ Len(Commands(call.out.port)) =
               Cardinality({i \in 1..Len(call.out.port.ops) :
                               call.out.port.ops[i].op = "write"})

\* 000xi is detected, the first sub-unit answers and the second fails: the
\* call wrote "0", "1", "2" and stopped
C21_Witness ==
    /\ call.op = "query_readings"
    /\ ~call.before._is_000xi
    /\ ~call.out.ok
    /\ Commands(call.out.port) = <<ZERO, 49, 50>>
    /\ UnitsDecoded(call) = 1

\* the command characters of the protocol: "0", "1", "2", "3" and "s"
CommandChars == {ZERO, ZERO + 1, ZERO + 2, ZERO + 3, 115}

\* the bytes written to the port by a call, in order
Written(ops) ==
    LET writes == SelectSeq(ops, LAMBDA o : o.op = "write")
    IN  [i \in 1..Len(writes) |-> writes[i].data]

\* bytes are "#", two decimal digits that read as address, one command
\* character and "\r"
IsCommandFrame(bytes, address) ==
    /\ Len(bytes) = 5
    /\ bytes[1] = 35
    /\ IsDigit(bytes[2]) /\ IsDigit(bytes[3])
    /\ (bytes[2] - ZERO) * 10 + (bytes[3] - ZERO) = address
    /\ bytes[4] \in CommandChars
    /\ bytes[5] = CR

\* C22: every byte sequence a call writes to the port is "#", the address
\* of the client as two decimal digits with a leading zero below 10, one
\* command character of "0", "1", "2", "3", "s", and "\r".
C22_CommandWire ==
    call.op \in {"query_readings", "query_serial_number"} =>
        \A i \in 1..Len(Written(call.out.port.ops)) :
            IsCommandFrame(Written(call.out.port.ops)[i], call.before.address)

\* a client with a one-digit address wrote the four commands of a 000xi
\* detection, the first of them "#030\r"
C22_Witness ==
    /\ call.op = "query_readings"
    /\ call.before.address < 10
    /\ Len(Written(call.out.port.ops)) = 4
    /\ Written(call.out.port.ops)[1] = <<35, ZERO, ZERO + 3, ZERO, CR>>
    /\ call.out.ok

\* the kinds of the fields that store a value (_ValueField and subclasses)
ValueKinds == {"Int", "Float", "String", "CosPhi", "Duration"}

\* the value fields of a sequence of fields, each with the key its value
\* is stored under (prefix is "" or the "1_", "2_", "3_" of a sub-unit)
KeyedFields(fields, prefix) ==
    {[key |-> prefix \o fields[i].name, field |-> fields[i]] :
        i \in {j \in 1..Len(fields) : fields[j].kind \in ValueKinds}}

\* the fields that stored the values of the record of a successful call
RecordFields(c) ==
    LET last == c.out.attempts[Len(c.out.attempts)]
    IN  IF last.schema = "FIELDS_SERIES_000XI"
        THEN UNION {KeyedFields(FIELDS_SERIES_000XI, Indexes[k] \o "_") : k \in 1..3}
        ELSE IF last.schema = "BASE_FIELDS_GENERIC"
        THEN KeyedFields(BASE_FIELDS_GENERIC, "")
             \cup KeyedFields(_resolve_subfields(Plain(Get(c.out.value, "inverter_type")).s),
                              "")
        ELSE KeyedFields(Schema(last.schema), "")

\* the field has both a quantity and a description
Annotatable(field) == field.quantity # "" /\ field.description # ""

\* the value under a key of the record is wrapped exactly when annotation
\* was asked for and the field of the key has a quantity and a description,
\* and then with the quantity and the description of that field
WrappedAsDefined(c, entry) ==
    LET defining == {f \in RecordFields(c) : f.key = entry.key /\ Annotatable(f.field)}
    IN  /\ entry.value.t = "annotated" <=> (c.annotate /\ defining # {})
        /\ entry.value.t = "annotated" =>
               \E f \in defining :
                   /\ entry.value.quantity = f.field.quantity
                   /\ entry.value.description = f.field.description

\* the same call in the other annotation mode, on the same client against
\* the same responses
OtherMode(c) == query_readings(c.before, Port(c.script), ~c.annotate)

\* two records have the same keys in the same order and the same values
\* under the annotations
SameUnderneath(a, b) ==
    /\ Keys(a) = Keys(b)
    /\ \A i \in 1..Len(a) : Plain(a[i].value) = Plain(b[i].value)

\* C23: annotation only wraps values.  In the record of a successful
\* query_readings call a value is wrapped exactly when the call was made
\* with annotate=True and the field of the value has both a quantity and a
\* description; and the call made in the other mode against the same
\* responses succeeds or fails alike, gives the same keys in the same order
\* with the same underlying values, does the same operations on the port
\* (the same commands written) and leaves the same cached family.
C23_AnnotationOnlyWraps ==
    call.op = "query_readings" =>
        /\ call.out.ok =>
               \A i \in 1..Len(call.out.value) : WrappedAsDefined(call, call.out.value[i])
        /\ OtherMode(call).ok = call.out.ok
        /\ OtherMode(call).err = call.out.err
        /\ call.out.ok => SameUnderneath(OtherMode(call).value, call.out.value)
        /\ OtherMode(call).port = call.out.port
        /\ OtherMode(call).client = call.out.client

\* an annotated call that detected 000xi: the record has wrapped values
\* (1_dc_voltage) and values left as they are (1_status, inverter_type),
\* and the client is 000xi afterwards
C23_Witness ==
    /\ call.op = "query_readings"
    /\ call.annotate
    /\ call.out.ok
    /\ ~call.before._is_000xi
    /\ call.out.client._is_000xi
    /\ Get(call.out.value, "1_dc_voltage").t = "annotated"
    /\ Get(call.out.value, "1_status").t # "annotated"
    /\ Get(call.out.value, "inverter_type").t # "annotated"

\* the first reply of a call has a header, and the header echoes command
HeaderEchoes(c, command) ==
    /\ Len(c.script) >= 1
    /\ c.script[1].fault = ""
    /\ HasRemaining(c.script[1].bytes, 0, 5)
    /\ At(c.script[1].bytes, 4) = command

\* the first reply of a call has a header that echoes another command
HeaderEchoesOther(c, command) ==
    /\ Len(c.script) >= 1
    /\ c.script[1].fault = ""
    /\ HasRemaining(c.script[1].bytes, 0, 5)
    /\ At(c.script[1].bytes, 4) # command

\* C24: query_serial_number fails cleanly.  The only command it writes is
\* "s"; a response that echoes another command makes it fail, a call that
\* succeeds was answered with the echo "s", and every failure (a frame that
\* does not decode included) is a ProtocolException with a cause.  The call
\* leaves the client as it was, whatever its outcome: the flags that decide
\* how the next readings query behaves (_is_000xi, _infered_standard_fields)
\* are those from before the call.
C24_SerialFailsCleanly ==
    call.op = "query_serial_number" =>
        /\ IsPrefix(Commands(call.out.port), <<115>>)
        /\ HeaderEchoesOther(call, 115) => ~call.out.ok
        /\ call.out.ok => HeaderEchoes(call, 115)
        /\ ~call.out.ok =>
               /\ call.out.err.exc = "ProtocolException"
               /\ call.out.err.cause # ""
        /\ call.out.client = call.before
        /\ client = call.before

\* a client that has inferred a legacy schema asks for the serial number
\* and is answered with the echo "s" and a frame that does not decode
C24_Witness ==
    /\ call.op = "query_serial_number"
    /\ Family(call.before) # "Unknown"
    /\ HeaderEchoes(call, 115)
    /\ ~call.out.ok
    /\ Len(call.out.attempts) = 1
    /\ client = call.before

\* the frame of the probe is the frame of a reading of one of the two
\* legacy families that answer "0", as the inverter laid it out
WellFormedStandardOrXP ==
    /\ probe.stage = "decoded"
    /\ probe.at = NoneInt
    /\ probe.echo = ZERO
    /\ probe.schema \in {"FIELDS_SERIES_00_02", "FIELDS_SERIES_XP"}

\* the LegacyStandard attempt on the frame of the probe
StandardAttempt ==
    _parse_fields(FIELDS_SERIES_00_02, probe.frame, probe.annotate, Port(<<>>))

\* the trial of a client with no family cached on the frame of the probe
TrialOnProbe ==
    _handle_kaco_standard_readings(NewClient(client.address), Port(<<>>), probe.frame,
                                   probe.annotate)

\* C29: trial-parsing infers the real family.  On the frame of a reading
\* laid out as LegacyXP the FIELDS_SERIES_00_02 attempt fails, on the frame
\* of a reading laid out as LegacyStandard it succeeds; so the trial of a
\* client with nothing cached succeeds on both, returns the record the
\* schema of the frame gives, and caches the schema the frame was built in.
C29_TrialInfersFamily ==
    WellFormedStandardOrXP =>
        /\ StandardAttempt.ok = (probe.schema = "FIELDS_SERIES_00_02")
        /\ probe.result.ok
        /\ TrialOnProbe.ok
        /\ TrialOnProbe.value = probe.result.data_dict
        /\ TrialOnProbe.client._infered_standard_fields = probe.schema
        /\ ~TrialOnProbe.client._is_000xi
        /\ Len(TrialOnProbe.attempts) = (IF probe.schema = "FIELDS_SERIES_XP" THEN 2 ELSE 1)

\* an XP frame: the first attempt of the trial failed at the dc_current
\* field, which is one character wider than that of FIELDS_SERIES_00_02,
\* and the second cached FIELDS_SERIES_XP
C29_Witness ==
    /\ WellFormedStandardOrXP
    /\ probe.schema = "FIELDS_SERIES_XP"
    /\ ~StandardAttempt.ok
    /\ StandardAttempt.err.cause = "Expected decimal places"
    /\ TrialOnProbe.client._infered_standard_fields = "FIELDS_SERIES_XP"

\* a call on a client with no family cached whose response echoed "0" and
\* was decoded by neither of the two trial schemas
BothTrialsFailed(c) ==
    /\ c.op = "query_readings"
    /\ Family(c.before) = "Unknown"
    /\ Echoed(c, ZERO)
    /\ Len(c.out.attempts) = 2
    /\ ~c.out.attempts[1].ok
    /\ ~c.out.attempts[2].ok

\* C30: when no family is cached and both the FIELDS_SERIES_00_02 and the
\* FIELDS_SERIES_XP attempt fail, the call fails with the ProtocolException
\* the FIELDS_SERIES_XP attempt raised; what the FIELDS_SERIES_00_02 attempt
\* found (a checksum mismatch, say) is reported only when the second
\* attempt fails in the same way.
C30_SecondErrorReported ==
    BothTrialsFailed(call) =>
        /\ ~call.out.ok
        /\ call.out.err = call.out.attempts[2].err
        /\ call.out.err.exc = "ProtocolException"
        /\ call.out.attempts[1].err # call.out.attempts[2].err =>
               call.out.err # call.out.attempts[1].err

\* a LegacyStandard frame with a wrong checksum: the first attempt found
\* the mismatch, the caller is told about the decimal places the second
\* attempt missed in dc_current
C30_Witness ==
    /\ BothTrialsFailed(call)
    /\ call.out.attempts[1].err.cause = "Expected checksum"
    /\ call.out.err.cause = "Expected decimal places"

(***************************************************************************)
(* The Home Assistant side: the setup flow (config_flow.py) and the        *)
(* polling coordinator (coordinator.py), both on top of the client and     *)
(* its context manager.  A Serial constructed from a port name is open     *)
(* when its constructor returns; the constructor and open() may raise      *)
(* SerialException, close() does not.                                      *)
(***************************************************************************)
\* _INVERTER_MODELS_BY_TYPE: the model name per type string; a type is its
\* sequence of character codes
_INVERTER_MODELS_BY_TYPE ==
    { [type |-> <<50, 53, 48, 48, 120, 105>>, model |-> "Powador 2500xi"],
      [type |-> <<51, 48, 48, 48, 120, 105>>, model |-> "Powador 3000xi"],
      [type |-> <<51, 53, 48, 48, 120, 105>>, model |-> "Powador 3500xi"],
      [type |-> <<51, 54, 48, 48, 120, 105>>, model |-> "Powador 3600xi"],
      [type |-> <<52, 48, 48, 48, 120, 105>>, model |-> "Powador 4000xi"],
      [type |-> <<52, 53, 48, 48, 120, 105>>, model |-> "Powador 4500xi"],
      [type |-> <<53, 48, 48, 48, 120, 105>>, model |-> "Powador 5000xi"],
      [type |-> <<54, 52, 48, 48, 120, 105>>, model |-> "Powador 6400xi"],
      [type |-> <<54, 54, 53, 48, 120, 105>>, model |-> "Powador 6650xi"],
      [type |-> <<55, 50, 48, 48, 120, 105>>, model |-> "Powador 7200xi"],
      [type |-> <<56, 48, 48, 48, 120, 105>>, model |-> "Powador 8000xi"],
      [type |-> <<52, 48, 48, 48, 115, 117>>, model |-> "Powador 4000 supreme"],
      [type |-> <<54, 52, 48, 48, 115, 117>>, model |-> "Powador 6400 supreme"],
      [type |-> <<54, 54, 53, 48, 115, 117>>, model |-> "Powador 6650 supreme"],
      [type |-> <<55, 50, 48, 48, 115, 117>>, model |-> "Powador 7200 supreme"],
      [type |-> <<56, 48, 48, 48, 115, 117>>, model |-> "Powador 8000 supreme"],
      [type |-> <<48, 50, 48, 76, 49, 49>>, model |-> "blueplanet 2.0 TL1"],
      [type |-> <<48, 50, 54, 76, 49, 49>>, model |-> "blueplanet 2.6 TL1"],
      [type |-> <<48, 51, 48, 76, 49, 49>>, model |-> "blueplanet 3.0 TL1"],
      [type |-> <<48, 51, 48, 76, 49, 50>>, model |-> "blueplanet 3.0 TL1-M2"],
      [type |-> <<48, 51, 53, 76, 49, 50>>, model |-> "blueplanet 3.5 TL1"],
      [type |-> <<48, 51, 55, 76, 49, 50>>, model |-> "blueplanet 3.7 TL1"],
      [type |-> <<48, 52, 48, 76, 49, 50>>, model |-> "blueplanet 4.0 TL1"],
      [type |-> <<48, 52, 54, 76, 49, 50>>, model |-> "blueplanet 4.6 TL1"],
      [type |-> <<48, 53, 48, 76, 49, 50>>, model |-> "blueplanet 5.0 TL1"],
      [type |-> <<51, 50, 48, 48, 73>>, model |-> "Powador 3200 International version"],
      [type |-> <<52, 50, 48, 48, 73>>, model |-> "Powador 4400 International version"],
      [type |-> <<52, 52, 48, 48, 73>>, model |-> "Powador 4400 International version"],
      [type |-> <<53, 51, 48, 48, 73>>, model |-> "Powador 5300 International version"],
      [type |-> <<53, 53, 48, 48, 73>>, model |-> "Powador 5500 International version"],
      [type |-> <<54, 54, 48, 48, 73>>, model |-> "Powador 6600 International version"],
      [type |-> <<55, 55, 48, 48, 73>>, model |-> "Powador 7700 International version"],
      [type |-> <<55, 57, 48, 48, 73>>, model |-> "Powador 7900 International version"],
      [type |-> <<56, 54, 48, 48, 73>>, model |-> "Powador 8600 International version"],
      [type |-> <<57, 54, 48, 48, 73>>, model |-> "Powador 9600 International version"],
      [type |-> <<53, 51, 48, 48, 73, 83>>, model |-> "Powador 5300 supreme International version"],
      [type |-> <<55, 55, 48, 48, 73, 83>>, model |-> "Powador 7700 supreme International version"],
      [type |-> <<55, 57, 48, 48, 73, 83>>, model |-> "Powador 7900 supreme International version"],
      [type |-> <<56, 54, 48, 48, 73, 83>>, model |-> "Powador 8600 supreme International version"],
      [type |-> <<57, 54, 48, 48, 73, 83>>, model |-> "Powador 9600 supreme International version"],
      [type |-> <<49, 53, 48, 49, 120, 105>>, model |-> "Powador 1501xi"],
      [type |-> <<50, 53, 48, 49, 120, 105>>, model |-> "Powador 2501xi"],
      [type |-> <<51, 53, 48, 49, 120, 105>>, model |-> "Powador 3501xi"],
      [type |-> <<52, 53, 48, 49, 120, 105>>, model |-> "Powador 4501xi"],
      [type |-> <<53, 48, 48, 49, 120, 105>>, model |-> "Powador 5001xi"],
      [type |-> <<50, 48, 48, 50, 68, 69>>, model |-> "Powador 2002 German version"],
      [type |-> <<51, 48, 48, 50, 68, 69>>, model |-> "Powador 3002 German version"],
      [type |-> <<52, 50, 48, 50, 68, 69>>, model |-> "Powador 4202 German version"],
      [type |-> <<53, 48, 48, 50, 68, 69>>, model |-> "Powador 5002 German version"],
      [type |-> <<54, 48, 48, 50, 68, 69>>, model |-> "Powador 6002 German version"],
      [type |-> <<50, 48, 48, 50, 73, 78>>, model |-> "Powador 2002 International version"],
      [type |-> <<51, 48, 48, 50, 73, 78>>, model |-> "Powador 3002 International version"],
      [type |-> <<52, 50, 48, 50, 73, 78>>, model |-> "Powador 4202 International version"],
      [type |-> <<53, 48, 48, 50, 73, 78>>, model |-> "Powador 5002 International version"],
      [type |-> <<54, 48, 48, 50, 73, 78>>, model |-> "Powador 6002 International version"],
      [type |-> <<51, 48, 48, 48, 73, 78>>, model |-> "Powador 3000 SE"],
      [type |-> <<56, 107, 49>>, model |-> "Powador 25000xi/1 Inverter unit 1"],
      [type |-> <<56, 107, 50>>, model |-> "Powador 25000xi/2 Inverter unit 2"],
      [type |-> <<56, 107, 51>>, model |-> "Powador 25000xi/3 inverter unit 3"],
      [type |-> <<51, 120, 56, 107>>, model |-> "Powador 25000xi"],
      [type |-> <<49, 48, 107, 49>>, model |-> "Powador 30000xi/1 Inverter unit 1"],
      [type |-> <<49, 48, 107, 50>>, model |-> "Powador 30000xi/2 Inverter unit 2"],
      [type |-> <<49, 48, 107, 51>>, model |-> "Powador 30000xi/3 inverter unit 3"],
      [type |-> <<51, 120, 49, 48, 107>>, model |-> "Powador 30000xi"],
      [type |-> <<49, 49, 107, 49>>, model |-> "Powador 33000xi/1 Inverter unit 1"],
      [type |-> <<49, 49, 107, 50>>, model |-> "Powador 33000xi/2 Inverter unit 2"],
      [type |-> <<49, 49, 107, 51>>, model |-> "Powador 33000xi/3 inverter unit 3"],
      [type |-> <<51, 120, 49, 49, 107>>, model |-> "Powador 33000xi"],
      [type |-> <<48, 51, 48, 76, 51, 50>>, model |-> "blueplanet 3.0 TL3"],
      [type |-> <<48, 52, 48, 76, 51, 50>>, model |-> "blueplanet 4.0 TL3"],
      [type |-> <<48, 53, 48, 76, 51, 50>>, model |-> "blueplanet 5.0 TL3"],
      [type |-> <<48, 54, 53, 76, 51, 50>>, model |-> "blueplanet 6.5 TL3"],
      [type |-> <<48, 55, 53, 76, 51, 50>>, model |-> "blueplanet 7.5 TL3"],
      [type |-> <<48, 56, 54, 76, 51, 50>>, model |-> "blueplanet 8.6 TL3"],
      [type |-> <<48, 57, 48, 76, 51, 50>>, model |-> "blueplanet 9.0 TL3"],
      [type |-> <<49, 48, 48, 76, 51, 50>>, model |-> "blueplanet 10.0 TL3"],
      [type |-> <<49, 53, 48, 76, 51, 50>>, model |-> "blueplanet 15.0 TL3"],
      [type |-> <<50, 48, 48, 76, 51, 50>>, model |-> "blueplanet 20.0 TL3"],
      [type |-> <<48, 51, 88, 50, 52>>, model |-> "blueplanet 3.0NX3 M2"],
      [type |-> <<48, 53, 88, 50, 52>>, model |-> "blueplanet 5.0NX3 M2"],
      [type |-> <<48, 56, 88, 50, 52>>, model |-> "blueplanet 8.0NX3 M2"],
      [type |-> <<49, 48, 88, 50, 52>>, model |-> "blueplanet 10.0NX3 M2"],
      [type |-> <<49, 50, 88, 50, 52>>, model |-> "blueplanet 12.0NX3 M2"],
      [type |-> <<49, 53, 88, 50, 52>>, model |-> "blueplanet 15.0NX3 M2"],
      [type |-> <<50, 48, 88, 50, 52>>, model |-> "blueplanet 20.0NX3 M2"],
      [type |-> <<50, 53, 88, 51, 52>>, model |-> "blueplanet 25.0NX3 M3 WM"],
      [type |-> <<51, 48, 88, 51, 52>>, model |-> "blueplanet 30.0NX3 M3 WM"],
      [type |-> <<51, 51, 88, 51, 52>>, model |-> "blueplanet 33.0NX3 M3 WM"],
      [type |-> <<49, 50, 48, 84, 76>>, model |-> "Powador 12.0 TL3"],
      [type |-> <<49, 52, 48, 84, 76>>, model |-> "Powador 14.0 TL3"],
      [type |-> <<49, 56, 48, 84, 76>>, model |-> "Powador 18.0 TL3"],
      [type |-> <<50, 48, 48, 84, 76>>, model |-> "Powador 20.0 TL3"],
      [type |-> <<51, 48, 48, 84, 76>>, model |-> "Powador 30.0 TL3"],
      [type |-> <<51, 51, 48, 84, 76>>, model |-> "Powador 33.0 TL3"],
      [type |-> <<51, 54, 48, 84, 76>>, model |-> "Powador 36.0 TL3"],
      [type |-> <<51, 54, 48, 77, 49>>, model |-> "Powador 36.0 TL3 M1"],
      [type |-> <<51, 55, 53, 84, 76>>, model |-> "Powador 37.5 TL3"],
      [type |-> <<51, 57, 48, 84, 76>>, model |-> "Powador 39.0 TL3"],
      [type |-> <<51, 57, 48, 77, 49>>, model |-> "Powador 39.0 TL3 M1"],
      [type |-> <<52, 48, 48, 84, 76>>, model |-> "Powador 40.0 TL3"],
      [type |-> <<52, 56, 48, 84, 76>>, model |-> "Powador 48.0 TL3"],
      [type |-> <<54, 48, 48, 84, 76>>, model |-> "Powador 60.0 TL3"],
      [type |-> <<55, 50, 48, 84, 76>>, model |-> "Powador 72.0 TL3"],
      [type |-> <<50, 57, 107, 72, 51, 80>>, model |-> "blueplanet 29.0 TL3 WM"],
      [type |-> <<53, 48, 75, 72, 51, 80>>, model |-> "blueplanet 50.0 TL3 WM"],
      [type |-> <<53, 48, 107, 72, 52, 80>>, model |-> "blueplanet 50.0 TL3 M1"],
      [type |-> <<53, 48, 107, 72, 52>>, model |-> "blueplanet 50.0 TL3 M3"],
      [type |-> <<53, 48, 107, 82, 80, 79>>, model |-> "blueplanet 50.0 TL3 RPO"],
      [type |-> <<54, 48, 107, 72, 51, 80>>, model |-> "blueplanet 60.0 TL3 M3"],
      [type |-> <<66, 71, 48, 53, 48, 49>>, model |-> "blueplanet gridsave 50.0 TL3"],
      [type |-> <<66, 71, 53, 48, 84, 76>>, model |-> "blueplanet gridsave 50.0 TL3"],
      [type |-> <<66, 81, 53, 48, 84, 76>>, model |-> "blueplanet voltage source 50.0 TL3"],
      [type |-> <<48, 57, 50, 71, 49, 52>>, model |-> "blueplanet gridsave 92.0 TL3"],
      [type |-> <<49, 49, 48, 71, 49, 53>>, model |-> "blueplanet gridsave 110 TL3"],
      [type |-> <<49, 51, 55, 71, 49, 54>>, model |-> "blueplanet gridsave 137 TL3"],
      [type |-> <<49, 54, 48, 84, 82>>, model |-> "Powador 16.0 TR3"],
      [type |-> <<49, 56, 48, 84, 82>>, model |-> "Powador 18.0 TR3"],
      [type |-> <<49, 48, 48, 107, 84, 82>>, model |-> "Powador XP100-HV"],
      [type |-> <<50, 48, 48, 107, 84, 82>>, model |-> "Powador XP200-HV"],
      [type |-> <<50, 48, 48, 107, 84, 76>>, model |-> "Powador XP200-HV TL"],
      [type |-> <<50, 53, 48, 107, 84, 82>>, model |-> "Powador XP250-HV"],
      [type |-> <<50, 53, 48, 107, 84, 76>>, model |-> "Powador XP250-HV TL"],
      [type |-> <<51, 53, 48, 107, 84, 76>>, model |-> "Powador XP350-HV TL"],
      [type |-> <<53, 48, 48, 107, 84, 76>>, model |-> "Powador XP500-HV TL"],
      [type |-> <<53, 53, 48, 107, 84, 76>>, model |-> "Powador XP550-HV TL"],
      [type |-> <<55, 53, 48, 107, 84, 76>>, model |-> "blueplanet 750 TL3"],
      [type |-> <<56, 55, 53, 107, 84, 76>>, model |-> "blueplanet 875 TL3"],
      [type |-> <<49, 48, 48, 48, 107, 84, 76>>, model |-> "blueplanet 1000 TL3"],
      [type |-> <<50, 57, 48, 49, 120, 105>>, model |-> "blueplanet 2901xi"],
      [type |-> <<51, 54, 48, 49, 120, 105>>, model |-> "blueplanet 3601xi"],
      [type |-> <<49, 53, 48, 50, 120, 105>>, model |-> "blueplanet 1502xi"],
      [type |-> <<50, 53, 48, 50, 120, 105>>, model |-> "blueplanet 2502xi"],
      [type |-> <<51, 53, 48, 50, 120, 105>>, model |-> "blueplanet 3502xi"],
      [type |-> <<53, 48, 48, 50, 120, 105>>, model |-> "blueplanet 5002xi"],
      [type |-> <<54, 52, 48, 48, 117>>, model |-> "blueplanet 6400xi supreme"],
      [type |-> <<55, 54, 48, 48, 117>>, model |-> "blueplanet 7600xi supreme"],
      [type |-> <<54, 52, 48, 48, 85, 77>>, model |-> "blueplanet 6400M"],
      [type |-> <<55, 54, 48, 48, 85, 77>>, model |-> "blueplanet 7600M"],
      [type |-> <<49, 48, 107, 72, 52>>, model |-> "blueplanet XP10U-H4"],
      [type |-> <<49, 48, 107, 72, 54>>, model |-> "blueplanet XP10U-H6"],
      [type |-> <<49, 48, 48, 107, 72, 50>>, model |-> "blueplanet XP100U-H2"],
      [type |-> <<49, 48, 48, 107, 72, 52>>, model |-> "blueplanet XP100U-H4"],
      [type |-> <<56, 51, 107, 72, 54>>, model |-> "blueplanet XP83U-H6"],
      [type |-> <<57, 48, 107, 72, 54>>, model |-> "blueplanet XP90U-H6"],
      [type |-> <<49, 48, 48, 107, 72, 54>>, model |-> "blueplanet XP100U-H6"],
      [type |-> <<51, 50, 107, 72, 52, 80>>, model |-> "blueplanet 32.0 TL3 M1 OD"],
      [type |-> <<52, 48, 107, 72, 52, 80>>, model |-> "blueplanet 40.0 TL3 M1 OD"],
      [type |-> <<51, 50, 107, 72, 52>>, model |-> "blueplanet 32.0 TL3 M3 OD"],
      [type |-> <<52, 48, 107, 72, 52>>, model |-> "blueplanet 40.0 TL3 M3 OD"],
      [type |-> <<48, 56, 55, 78, 49, 51>>, model |-> "blueplanet 87 TL3"],
      [type |-> <<48, 57, 50, 78, 49, 52>>, model |-> "blueplanet 92 TL3"],
      [type |-> <<49, 48, 48, 78, 49, 51>>, model |-> "blueplanet 100 TL3"],
      [type |-> <<49, 48, 53, 78, 49, 52>>, model |-> "blueplanet 105 TL3"],
      [type |-> <<49, 49, 48, 78, 49, 53>>, model |-> "blueplanet 110 TL3"],
      [type |-> <<49, 50, 53, 78, 49, 53>>, model |-> "blueplanet 125 TL3"],
      [type |-> <<49, 50, 53, 78, 49, 54>>, model |-> "blueplanet 125 TL3"],
      [type |-> <<49, 51, 55, 78, 49, 54>>, model |-> "blueplanet 137 TL3"],
      [type |-> <<49, 53, 48, 78, 49, 55>>, model |-> "blueplanet 150 TL3"],
      [type |-> <<49, 53, 53, 78, 49, 54>>, model |-> "blueplanet 155 TL3"],
      [type |-> <<49, 54, 53, 78, 49, 55>>, model |-> "blueplanet 165 TL3"] }

\* resolve_model_name(inverter_type): the model name, "" for None
resolve_model_name(inverter_type) ==
    LET found == {m \in _INVERTER_MODELS_BY_TYPE : m.type = inverter_type}
    IN  IF found = {} THEN "" ELSE (CHOOSE m \in found : TRUE).model

\* KacoInverterClient.open and KacoInverterClient.close
open(port) == SerialPort(TRUE, Append(port.calls, "open"))
close(port) == SerialPort(FALSE, Append(port.calls, "close"))

\* __exit__ closing the port only when the body of the with statement did
\* not raise
__exit__OnSuccess(port, raised) == IF port.is_open /\ ~raised THEN close(port) ELSE port

\* KacoInverterClient.__exit__(exc_type, exc_val, exc_tb); raised tells
\* whether exc_type is not None
__exit__(port, raised) == IF port.is_open THEN close(port) ELSE port

\* KacoInverterClient.__enter__; fault tells whether open() raises
\* SerialException
__enter__(port, fault) ==
    IF port.is_open THEN [ok |-> TRUE, port |-> port]
    ELSE IF fault
    THEN [ok |-> FALSE, port |-> SerialPort(FALSE, Append(port.calls, "open"))]
    ELSE [ok |-> TRUE, port |-> open(port)]

\* the port of a client constructed from a port name
Constructed == SerialPort(TRUE, <<"Serial">>)

\* the port of a client whose construction raised
NotConstructed == SerialPort(FALSE, <<"Serial">>)

\* the coordinator after _update_data
Polled(h, kind, data, _client, is_open, block) ==
    [h EXCEPT !.op = "_async_update_data", !._client = _client, !.is_open = is_open,
              !.block = block, !.result = HostResult(kind, "", NoEntry, data)]

\* what a host operation leaves: the host, the coordinator's client and the
\* readings call made
HostStep(h, c, made) == [host |-> h, client |-> c, call |-> made]

\* _update_data with the ProtocolException handler setting nothing: the
\* client is kept after a failed poll
PollQueriedKeeping(h, port, entered, run) ==
    LET left == __exit__(entered, ~run.out.ok)
        block == Block(port.is_open, TRUE, ~run.out.ok, left)
    IN  IF run.out.ok
        THEN HostStep(Polled(h, "data", run.out.value, TRUE, left.is_open, block),
                      run.out.client, run)
        ELSE IF run.out.err.exc = "ProtocolException"
        THEN HostStep(Polled(h, "UpdateFailed", EmptyDict, TRUE, left.is_open, block),
                      run.out.client, run)
        ELSE HostStep(Polled(h, run.out.err.exc, EmptyDict, TRUE, left.is_open, block),
                      run.out.client, run)

\* _update_data from the body of its with statement on: run is the call
\* client.query_readings(), port the port when the statement was reached
\* and entered the port after __enter__
PollQueried(h, port, entered, run) ==
    LET left == __exit__(entered, ~run.out.ok)
        block == Block(port.is_open, TRUE, ~run.out.ok, left)
    IN  IF run.out.ok
        THEN HostStep(Polled(h, "data", run.out.value, TRUE, left.is_open, block),
                      run.out.client, run)
        ELSE IF run.out.err.exc = "ProtocolException"
        THEN HostStep(Polled(h, "UpdateFailed", EmptyDict, FALSE, FALSE, block),
                      NoClient, run)
        ELSE HostStep(Polled(h, run.out.err.exc, EmptyDict, TRUE, left.is_open, block),
                      run.out.client, run)

\* _update_data from its with statement on, used the client and port its port
PollWith(h, used, port, open_fault) ==
    LET entered == __enter__(port, open_fault)
    IN  IF ~entered.ok
        THEN {HostStep(Polled(h, "SerialException", EmptyDict, TRUE, entered.port.is_open,
                              Block(port.is_open, FALSE, FALSE, entered.port)),
                       used, NoCall(used))}
        ELSE {PollQueried(h, port, entered.port, run) :
                 run \in ReadingRuns(used, FALSE, <<>>)}

\* KacoInverterCoordinator._async_update_data (_update_data), c the client
\* of the coordinator: what it may leave, given whether the Serial
\* constructor and open() raise
_update_data(h, c, construct_fault, open_fault) ==
    IF h._client THEN PollWith(h, c, SerialPort(h.is_open, <<>>), open_fault)
    ELSE IF construct_fault
    THEN {HostStep(Polled(h, "SerialException", EmptyDict, FALSE, FALSE,
                          Block(FALSE, FALSE, FALSE, NotConstructed)),
                   NoClient, NoCall(NoClient))}
    ELSE PollWith(h, NewClient(Get(h.entry.data, "address").n), Constructed, open_fault)

\* the port name the user picks in the form: "COM42"
PortName == StrV(<<67, 79, 77, 52, 50>>)

\* the input of the user step: None, or the port and the address of the
\* form (an integer from 1 to 99 by the schema of the form)
NoInput == [given |-> FALSE, port |-> NoneV, address |-> NoneInt]
UserInput(port, address) == [given |-> TRUE, port |-> port, address |-> address]

\* _ConnectionInfo(model, serial_number); model is the name
\* resolve_model_name gave, or else the type string
ConnectionInfo(inverter_type, serial_number) ==
    [model |-> resolve_model_name(inverter_type),
     type |-> IF resolve_model_name(inverter_type) = "" THEN inverter_type ELSE <<>>,
     serial_number |-> serial_number]

NoConnectionInfo == [model |-> "", type |-> <<>>, serial_number |-> NoneV]

\* what _try_connect gives: connection_info (connected tells that it is not
\* None) or the exception that left it, the two calls it made on the client
\* and its with statement
Tried(connected, info, raised, readings, serial, block) ==
    [connected |-> connected, info |-> info, raised |-> raised, readings |-> readings,
     serial |-> serial, block |-> block]

\* the with statement of _try_connect around a body that raised or not
ConnectBlock(raised) ==
    Block(TRUE, TRUE, raised, __exit__(__enter__(Constructed, FALSE).port, raised))

\* _try_connect from the serial-number query on: contextlib.suppress drops
\* a ProtocolException and leaves serial_number None
TriedSerial(readings, serial) ==
    IF serial.out.ok
    THEN Tried(TRUE,
               ConnectionInfo(Get(readings.out.value, "inverter_type").s, serial.out.value),
               "", readings, serial, ConnectBlock(FALSE))
    ELSE IF serial.out.err.exc = "ProtocolException"
    THEN Tried(TRUE, ConnectionInfo(Get(readings.out.value, "inverter_type").s, NoneV),
               "", readings, serial, ConnectBlock(FALSE))
    ELSE Tried(FALSE, NoConnectionInfo, serial.out.err.exc, readings, serial,
               ConnectBlock(TRUE))

\* _try_connect from the readings query on
TriedReadings(c, readings) ==
    IF readings.out.ok
    THEN {TriedSerial(readings, serial) : serial \in SerialRuns(readings.out.client, <<>>)}
    ELSE IF readings.out.err.exc = "ProtocolException"
    THEN {Tried(FALSE, NoConnectionInfo, "", readings, NoCall(c), ConnectBlock(TRUE))}
    ELSE {Tried(FALSE, NoConnectionInfo, readings.out.err.exc, readings, NoCall(c),
                ConnectBlock(TRUE))}

\* _try_connect(serial_port_path, inverter_address)
_try_connect(inverter_address, construct_fault) ==
    IF construct_fault
    THEN {Tried(FALSE, NoConnectionInfo, "", NoCall(NoClient), NoCall(NoClient),
                Block(FALSE, FALSE, FALSE, NotConstructed))}
    ELSE UNION {TriedReadings(NewClient(inverter_address), readings) :
                   readings \in ReadingRuns(NewClient(inverter_address), FALSE, <<>>)}

\* f"KACO {connection_info.model} #{user_input[CONF_INVERTER_ADDRESS]:02}"
Title(info, address) ==
    [model |-> info.model, type |-> info.type, address |-> TwoDigits(address)]

\* {**user_input, **extra_data}
EntryData(user_input, extra_data) ==
    <<[key |-> "port", value |-> user_input.port],
      [key |-> "address", value |-> IntV(user_input.address)]>> \o extra_data

\* if connection_info.serial_number: a str that is not empty
Truthy(serial_number) == serial_number # NoneV /\ serial_number.s # <<>>

\* the host after the user step
Stepped(h, tried, result) ==
    [h EXCEPT !.op = "async_step_user", !.block = tried.block, !.serial = tried.serial,
              !.result = result,
              !.entry = IF result.kind = "create_entry" THEN result.entry ELSE @,
              !.unique_ids = IF result.kind = "create_entry"
                                /\ result.entry.unique_id # NoneV
                             THEN @ \cup {result.entry.unique_id} ELSE @]

\* the user step taking every serial number that is not None for one
StepConnectedAnySerial(h, user_input, tried) ==
    IF tried.info.serial_number # NoneV
    THEN IF tried.info.serial_number \in h.unique_ids
         THEN HostResult("abort", "already_configured", NoEntry, EmptyDict)
         ELSE HostResult("create_entry", "",
                         ConfigEntry(Title(tried.info, user_input.address),
                                     EntryData(user_input,
                                               <<[key |-> "serial_number",
                                                  value |-> tried.info.serial_number]>>),
                                     tried.info.serial_number),
                         EmptyDict)
    ELSE HostResult("create_entry", "",
                    ConfigEntry(Title(tried.info, user_input.address),
                                EntryData(user_input, <<>>), NoneV),
                    EmptyDict)

\* async_step_user from the else branch of "if not connection_info" on
StepConnected(h, user_input, tried) ==
    IF Truthy(tried.info.serial_number)
    THEN IF tried.info.serial_number \in h.unique_ids
         THEN HostResult("abort", "already_configured", NoEntry, EmptyDict)
         ELSE HostResult("create_entry", "",
                         ConfigEntry(Title(tried.info, user_input.address),
                                     EntryData(user_input,
                                               <<[key |-> "serial_number",
                                                  value |-> tried.info.serial_number]>>),
                                     tried.info.serial_number),
                         EmptyDict)
    ELSE HostResult("create_entry", "",
                    ConfigEntry(Title(tried.info, user_input.address),
                                EntryData(user_input, <<>>), NoneV),
                    EmptyDict)

\* the user step creating the entry also when connection_info is None
StepTriedCreating(h, user_input, tried) ==
    IF tried.raised # ""
    THEN HostStep(Stepped(h, tried, HostResult(tried.raised, "", NoEntry, EmptyDict)),
                  NoClient, tried.readings)
    ELSE HostStep(Stepped(h, tried, StepConnected(h, user_input, tried)),
                  NoClient, tried.readings)

\* async_step_user from the result of _try_connect on
StepTried(h, user_input, tried) ==
    IF tried.raised # ""
    THEN HostStep(Stepped(h, tried, HostResult(tried.raised, "", NoEntry, EmptyDict)),
                  NoClient, tried.readings)
    ELSE IF ~tried.connected
    THEN HostStep(Stepped(h, tried, HostResult("form", "cannot_connect", NoEntry, EmptyDict)),
                  NoClient, tried.readings)
    ELSE HostStep(Stepped(h, tried, StepConnected(h, user_input, tried)),
                  NoClient, tried.readings)

\* KacoInverterConfigFlow.async_step_user(user_input): the form for no
\* input; the list of the serial ports the form offers is left out
async_step_user(h, user_input, construct_fault) ==
    IF ~user_input.given
    THEN {HostStep([h EXCEPT !.op = "async_step_user",
                             !.result = HostResult("form", "", NoEntry, EmptyDict)],
                   NoClient, NoCall(NoClient))}
    ELSE {StepTried(h, user_input, tried) :
             tried \in _try_connect(user_input.address, construct_fault)}

\* the entries whose coordinator is followed: the first entry of the host,
\* when it is that of an inverter that answered the flow as a Powador
\* 3600xi and gave no serial number (the coordinator takes nothing but the
\* address from its entry)
PolledEntries ==
    {ConfigEntry(Title(ConnectionInfo(Type3600xi, NoneV), a),
                 EntryData(UserInput(PortName, a), <<>>), NoneV) : a \in Addresses}

\* the flow is followed up to its second entry: it is run when there is no
\* entry yet, and again when the entry it created has a unique id
FlowFollowed(h) == h.entry = NoEntry \/ h.entry.unique_id # NoneV

\* the setup flows are run before the coordinator of the entry polls (the
\* flow and the coordinator share no state)
HostInit ==
    /\ client = NoClient
    /\ call = NoCall(NoClient)
    /\ probe = NoProbe
    /\ line = "quiet"
    /\ host = NoHost

\* the user opens or submits the form of the setup flow
UserStep ==
    /\ host.op = "none"
    /\ ~host._client /\ host.previous = "none"
    /\ FlowFollowed(host)
    /\ \E user_input \in {NoInput} \cup {UserInput(PortName, a) : a \in Addresses} :
        \E construct_fault \in BOOLEAN :
            \E after \in async_step_user(host, user_input, construct_fault) :
                /\ host' = after.host
                /\ call' = after.call
    /\ UNCHANGED <<client, probe, line>>

\* the update interval of the coordinator of the entry elapses
Poll ==
    /\ host.op = "none"
    /\ host.entry \in PolledEntries /\ host.unique_ids = {}
    /\ \E construct_fault \in (IF host._client THEN {FALSE} ELSE BOOLEAN),
          open_fault \in (IF host._client THEN BOOLEAN ELSE {FALSE}) :
        \E after \in _update_data(host, client, construct_fault, open_fault) :
            /\ host' = after.host
            /\ client' = after.client
            /\ call' = after.call
    /\ UNCHANGED <<probe, line>>

\* the host has taken the result of the operation
Done ==
    /\ host.op # "none"
    /\ host' = [host EXCEPT !.op = "none",
                            !.previous = IF host.op = "_async_update_data"
                                         THEN host.result.kind ELSE @,
                            !.block = NoBlock,
                            !.serial = NoCall(NoClient),
                            !.result = NoHostResult]
    /\ call' = NoCall(client)
    /\ UNCHANGED <<client, probe, line>>

HostNext == UserStep \/ Poll \/ Done

HostSpec == HostInit /\ [][HostNext]_vars

\* the step is a poll of the coordinator
PollStep == host.op = "none" /\ host'.op = "_async_update_data"

\* C25: in the coordinator, a poll whose query_readings fails with a
\* ProtocolException sets self._client to None and gives UpdateFailed, and
\* the poll after it constructs a client, so its query starts from a client
\* with nothing cached; a poll whose query succeeds keeps the client as the
\* query left it, and the poll after it finds the port of that client
\* closed, opens it again and queries with the client as it was kept, the
\* cached family included.
C25_ClientLifetime ==
    [][PollStep =>
        /\ (call'.op = "query_readings" /\ ~call'.out.ok
            /\ call'.out.err.exc = "ProtocolException") =>
                /\ ~host'._client
                /\ host'.result.kind = "UpdateFailed"
        /\ (call'.op = "query_readings" /\ call'.out.ok) =>
                /\ host'._client
                /\ client' = call'.out.client
                /\ host'.result.kind = "data"
                /\ ~host'.is_open
        /\ host.previous = "UpdateFailed" =>
                /\ ~host._client
                /\ Head(host'.block.port.calls) = "Serial"
                /\ call'.op = "query_readings" =>
                       /\ call'.before = NewClient(Get(host.entry.data, "address").n)
                       /\ Family(call'.before) = "Unknown"
        /\ host.previous = "data" =>
                /\ host._client
                /\ ~host.is_open
                /\ Head(host'.block.port.calls) = "open"
                /\ call'.op = "query_readings" =>
                       /\ call'.before = client
                       /\ host'.block.port.calls = <<"open", "close">>]_vars

\* a poll after a successful one: the port was closed, is opened again,
\* and the query is made with the family the poll before cached
C25_Witness ==
    /\ host.op = "_async_update_data"
    /\ host.previous = "data"
    /\ call.op = "query_readings"
    /\ Family(call.before) = "LegacyXP"
    /\ Len(call.out.attempts) = 1
    /\ call.out.ok
    /\ host.block.port.calls = <<"open", "close">>

\* the number of calls of a method in the log of a port
CallsOf(port, method) ==
    Cardinality({i \in 1..Len(port.calls) : port.calls[i] = method})

\* the operation of the host reached its with statement
WithReached(h) == h.op # "none" /\ h.block # NoBlock /\ h.block.port # NotConstructed

\* C26: a with statement on the client calls open() exactly when the port
\* is not open when the statement is reached, and on leaving the body
\* calls close() exactly when the port is open, whether the body raised or
\* not.  After the statement the port is closed: it was closed once when
\* the body was entered, and was never opened when open() itself raised.
\* A port that is open when the statement is reached (that of a client
\* just constructed) is not opened again.
C26_ContextManager ==
    WithReached(host) =>
        /\ CallsOf(host.block.port, "open") = (IF host.block.was_open THEN 0 ELSE 1)
        /\ CallsOf(host.block.port, "close") = (IF host.block.entered THEN 1 ELSE 0)
        /\ ~host.block.port.is_open
        /\ host.block.raised => host.block.entered
        /\ host.block.entered =>
              host.block.port.calls[Len(host.block.port.calls)] = "close"
        /\ host.block.was_open = (Head(host.block.port.calls) = "Serial")

\* a poll with a kept client whose query raised: the port was found
\* closed, opened, and closed again on the way out
C26_Witness ==
    /\ WithReached(host)
    /\ host.op = "_async_update_data"
    /\ ~host.block.was_open
    /\ host.block.raised
    /\ ~call.out.ok
    /\ host.block.port = SerialPort(FALSE, <<"open", "close">>)

\* the step is a user step of the setup flow with the form filled in
SubmitStep ==
    /\ host.op = "none"
    /\ host'.op = "async_step_user"
    /\ host'.result # HostResult("form", "", NoEntry, EmptyDict)

\* the connection attempt of the step just made failed: the Serial
\* constructor raised, or query_readings raised ProtocolException
ConnectFailed ==
    \/ host'.block.port = NotConstructed
    \/ /\ call'.op = "query_readings"
       /\ ~call'.out.ok
       /\ call'.out.err.exc = "ProtocolException"

\* C27: in the setup flow, when the Serial constructor raises or the
\* readings query fails with a ProtocolException (a fault of the port
\* inside the query included), the step creates no config entry and sets
\* no unique id, does not ask for the serial number, and shows the form
\* again with errors = {"base": "cannot_connect"}.
C27_CannotConnect ==
    [][(SubmitStep /\ ConnectFailed) =>
        /\ host'.result = HostResult("form", "cannot_connect", NoEntry, EmptyDict)
        /\ host'.entry = host.entry
        /\ host'.unique_ids = host.unique_ids
        /\ host'.serial.op = "none"]_vars

\* the inverter did not answer the readings query of the flow (a timeout):
\* the form is shown with cannot_connect, and there is still no entry
C27_Witness ==
    /\ host.op = "async_step_user"
    /\ call.op = "query_readings"
    /\ ~call.out.ok
    /\ call.out.err = EndOfFrame
    /\ host.result.kind = "form"
    /\ host.result.errors = "cannot_connect"
    /\ host.entry = NoEntry

\* the step is a submitted user step whose readings query succeeded
ConnectedStep ==
    /\ SubmitStep
    /\ call'.op = "query_readings"
    /\ call'.out.ok
    /\ host'.serial.op = "query_serial_number"

\* the data of an entry without and with a serial number
PortAndAddress(address) ==
    <<[key |-> "port", value |-> PortName], [key |-> "address", value |-> IntV(address)]>>

WithSerial(address, serial_number) ==
    PortAndAddress(address) \o <<[key |-> "serial_number", value |-> serial_number]>>

\* the step created the entry with these data and this unique id
Created(data, unique_id) ==
    /\ host'.result.kind = "create_entry"
    /\ host'.result.entry.data = data
    /\ host'.result.entry.unique_id = unique_id
    /\ host'.entry = host'.result.entry

\* C28: in the setup flow, after a successful readings query, a
\* serial-number query that fails with a ProtocolException, or that returns
\* the empty string (a serial number of NUL bytes or blanks only), does not
\* prevent setup: the entry is created with exactly the port and the
\* address as data and no unique id.  When a serial number that is not
\* empty is returned, the entry data additionally holds it and it is the
\* entry's unique id, unless an entry with that unique id exists already,
\* in which case the flow aborts and creates nothing.
C28_SerialOptional ==
    [][ConnectedStep =>
        LET serial == host'.serial.out
            address == call'.before.address
        IN  IF ~serial.ok
            THEN serial.err.exc = "ProtocolException"
                 /\ Created(PortAndAddress(address), NoneV)
            ELSE IF serial.value = StrV(<<>>)
            THEN Created(PortAndAddress(address), NoneV)
            ELSE IF serial.value \in host.unique_ids
            THEN /\ host'.result = HostResult("abort", "already_configured", NoEntry, EmptyDict)
                 /\ host'.entry = host.entry
                 /\ host'.unique_ids = host.unique_ids
            ELSE /\ Created(WithSerial(address, serial.value), serial.value)
                 /\ host'.unique_ids = host.unique_ids \cup {serial.value}]_vars

\* C28 as stated: whenever the serial-number query returns, the entry that
\* is created holds what it returned, as data and as unique id
C28_AsStated ==
    [][(ConnectedStep /\ host'.serial.out.ok /\ host'.result.kind = "create_entry") =>
        Created(WithSerial(call'.before.address, host'.serial.out.value),
                host'.serial.out.value)]_vars

\* the flow has created an entry although the serial-number query failed
C28_Witness ==
    /\ host.op = "async_step_user"
    /\ call.op = "query_readings" /\ call.out.ok
    /\ host.serial.op = "query_serial_number"
    /\ ~host.serial.out.ok
    /\ host.result.kind = "create_entry"
    /\ host.entry.data = PortAndAddress(call.before.address)
    /\ host.entry.unique_id = NoneV

\* the flow has created an entry with the serial number "12.0TL3-0042"
C28_WitnessSerial ==
    /\ host.op = "async_step_user"
    /\ host.serial.out.ok
    /\ host.serial.out.value = StrV(SerialNumber)
    /\ host.result.kind = "create_entry"
    /\ host.entry.unique_id = StrV(SerialNumber)

\* the flow has created an entry after the serial-number query returned ""
C28_WitnessBlank ==
    /\ host.op = "async_step_user"
    /\ host.serial.out.ok
    /\ host.serial.out.value = StrV(<<>>)
    /\ host.result.kind = "create_entry"
    /\ host.entry.unique_id = NoneV

\* the flow has aborted on a serial number that is configured already
C28_WitnessAbort ==
    /\ host.op = "async_step_user"
    /\ host.serial.out.ok
    /\ host.result.kind = "abort"
    /\ host.entry # NoEntry

\* the call is a query_readings on the single-frame legacy path: the client
\* was not on the 000xi path and the response echoes "0"
SingleFrameLegacy(c) ==
    /\ c.op = "query_readings"
    /\ ~c.before._is_000xi
    /\ Echoed(c, ZERO)

\* the response read_until gave after the command of the call
FirstResponse(c) == _send_command(c.before.address, Port(c.script), ZERO)

\* C31: a query_readings call on the single-frame legacy path issues at
\* most one read_until beyond the read that follows its command, also when
\* both the FIELDS_SERIES_00_02 and the FIELDS_SERIES_XP attempt run; the
\* FIELDS_SERIES_XP attempt is the decode of the frame as read_until gave it
\* after the command, not of a frame extended by the first attempt.
C31_OneMoreRead ==
    SingleFrameLegacy(call) =>
        LET a == call.out.attempts
            ops == call.out.port.ops
            sent == FirstResponse(call)
        IN  /\ Reads(ops) <= 2
            /\ ExtraReads(ops) <= 1
            /\ AttemptReads(a) = Reads(ops) - 1
            /\ Len(a) <= 2
            /\ Len(a) = 2 =>
                LET first == _parse_fields(FIELDS_SERIES_00_02, sent.response,
                                           call.annotate, sent.port)
                    second == _parse_fields(FIELDS_SERIES_XP, sent.response,
                                            call.annotate, first.port)
                IN  /\ a[1] = Attempt("FIELDS_SERIES_00_02", first)
                    /\ a[2] = Attempt("FIELDS_SERIES_XP", second)
                    /\ a[2].buffered \in {NoneInt, Len(sent.response)}
                    /\ call.out.port = second.port

\* both attempts ran on a frame that ended with its checksum byte for the
\* first schema: the first attempt read on and got bytes, the second began
\* with the 58 bytes of the first read again, failed before its checksum
\* field and made no read
C31_Witness ==
    /\ SingleFrameLegacy(call)
    /\ Len(call.out.attempts) = 2
    /\ call.out.attempts[1].reads = 1
    /\ call.out.attempts[1].checksum_end = Len(call.script[1].bytes)
    /\ Len(call.script) = 2
    /\ call.script[2].bytes # <<>>
    /\ call.out.attempts[2].reads = 0
    /\ call.out.attempts[2].checksum_end = NoneInt
    /\ Reads(call.out.port.ops) = 2

\* the second attempt read on instead: the frame ended with the checksum
\* byte "\r" of FIELDS_SERIES_XP, which the first attempt did not reach
C31_WitnessXP ==
    /\ SingleFrameLegacy(call)
    /\ Len(call.out.attempts) = 2
    /\ call.out.attempts[1].reads = 0
    /\ call.out.attempts[2].reads = 1
    /\ Reads(call.out.port.ops) = 2

\* the frames the decode attempts of a call were made on, from the reply at
\* on: each is the reply after a command and, for an attempt that read on,
\* the reply after that
RECURSIVE DecodedFrames(_, _, _)
DecodedFrames(script, at, attempts) ==
    IF attempts = <<>> THEN <<>>
    ELSE <<script[at].bytes
             \o (IF Head(attempts).reads = 1 THEN script[at + 1].bytes ELSE <<>>)>>
         \o DecodedFrames(script, at + 1 + Head(attempts).reads, Tail(attempts))

\* the frames the record of a successful query_readings call was decoded
\* from: three after the response with echo "4" when the call detected the
\* 000xi family, else the one or the three the call read
RecordFrames(c) ==
    LET last == c.out.attempts[Len(c.out.attempts)]
    IN  IF last.schema = "FIELDS_SERIES_000XI"
        THEN DecodedFrames(c.script, IF c.before._is_000xi THEN 1 ELSE 2, c.out.attempts)
        ELSE DecodedFrames(c.script, 1, <<last>>)

\* the number of bytes the fields lo..hi of a legacy schema take in a frame
RECURSIVE Widths(_, _, _)
Widths(fields, lo, hi) ==
    IF lo > hi THEN 0
    ELSE (CASE fields[lo].kind = "Start" -> 5
            [] fields[lo].kind = "LegacyChecksum" -> 2
            [] fields[lo].kind = "LegacyStop" -> 1
            [] OTHER -> fields[lo].length + 1)
         + Widths(fields, lo + 1, hi)

\* a legacy frame is as long as its schema, its checksum byte is the sum of
\* the bytes from the "*" to the space in front of it modulo 256, and its
\* last byte is "\r"
LegacyValidated(frame, fields) ==
    LET covered == Widths(fields, 1, ChecksumIndex(fields) - 1) + 1
    IN  /\ Len(frame) = Widths(fields, 1, Len(fields))
        /\ frame[covered + 1] = SumOf(frame, 2, covered) % 256
        /\ frame[Len(frame)] = CR

\* a generic frame ends with a space, the CRC-16/X25 of the bytes from the
\* "*" to that space in four hexadecimal digits, and "\r"
GenericValidated(frame) ==
    /\ Len(frame) >= 11
    /\ frame[Len(frame)] = CR
    /\ frame[Len(frame) - 5] = SP
    /\ PyIntHex(SubSeq(frame, Len(frame) - 4, Len(frame) - 1)).ok
    /\ PyIntHex(SubSeq(frame, Len(frame) - 4, Len(frame) - 1)).n
           = CrcOver(frame, 1, Len(frame) - 5)

\* every frame of the record was validated as its schema has it
FramesValidated(c) ==
    LET last == c.out.attempts[Len(c.out.attempts)]
        frames == RecordFrames(c)
    IN  /\ last.schema = "FIELDS_SERIES_000XI" => Len(frames) = 3
        /\ \A i \in 1..Len(frames) :
              IF last.schema = "BASE_FIELDS_GENERIC" THEN GenericValidated(frames[i])
              ELSE LegacyValidated(frames[i], Schema(last.schema))

\* the record has one value for every value field of the schema, and for
\* 000xi the combined inverter_type besides, and nothing else
FullRecord(c) ==
    LET keys == {f.key : f \in RecordFields(c)}
                \cup (IF c.out.client._is_000xi THEN {"inverter_type"} ELSE {})
    IN  /\ {c.out.value[i].key : i \in 1..Len(c.out.value)} = keys
        /\ Len(c.out.value) = Cardinality(keys)

\* C32: query_readings never returns a partial record.  When it returns,
\* every frame it decoded (all three on the 000xi path) was decoded to its
\* end by an attempt that succeeded, has the checksum or CRC of its bytes
\* and ends with "\r", and the record has a value for every value field of
\* the schema; in every other case the call raises and returns nothing, as
\* it does on an empty response and on a response cut off by a timeout.
C32_NoPartialRecord ==
    call.op = "query_readings" =>
        /\ call.out.ok =>
              /\ call.out.attempts # <<>>
              /\ call.out.attempts[Len(call.out.attempts)].ok
              /\ call.out.client._is_000xi =>
                    /\ Len(call.out.attempts) = 3
                    /\ \A i \in 1..3 : call.out.attempts[i].ok
              /\ FullRecord(call)
              /\ FramesValidated(call)
              /\ call.out.err = NoError
        /\ ~call.out.ok =>
              /\ call.out.value = EmptyDict
              /\ call.out.err.exc # ""
        /\ (call.script # <<>> /\ call.script[1] = Timeout) =>
              ~call.out.ok /\ call.out.err = EndOfFrame
        /\ (Len(call.script) = 2 /\ call.script[2] = Timeout) => ~call.out.ok

\* a call on the 000xi path returned the 31 values of three frames
C32_Witness ==
    /\ call.op = "query_readings"
    /\ call.out.ok
    /\ Len(call.out.attempts) = 3
    /\ Len(call.out.value) = 31
    /\ FramesValidated(call)

\* a call raised on a frame cut off after its checksum byte: the read that
\* followed timed out
C32_WitnessTruncated ==
    /\ call.op = "query_readings"
    /\ Len(call.script) = 2
    /\ call.script[1].bytes = CutAfterChecksum(call.before.address)
    /\ call.script[2] = Timeout
    /\ ~call.out.ok
    /\ call.out.err = EndOfFrame
    /\ call.out.value = EmptyDict

\* the 5-byte start marker: "\n", "*", two ASCII digits, one ASCII character
StartMarker(response) ==
    /\ Len(response) >= 5
    /\ response[1] = LF
    /\ response[2] = STAR
    /\ IsDigit(response[3]) /\ IsDigit(response[4])
    /\ response[5] < 128

\* query_readings went on to the 000xi path on the j-th reply: the client
\* was not on that path, the reply is the response to "0", and the call
\* wrote a further command
SwitchedOn(c, j) ==
    /\ c.op = "query_readings"
    /\ j = 1
    /\ ~c.before._is_000xi
    /\ Len(Commands(c.out.port)) >= 2

\* the header as _send_command checks it: five ASCII bytes, the third and
\* the fourth of which int() reads as the address of the client
HeaderAccepted(response, address) ==
    /\ Len(response) >= 5
    /\ IsAscii(SubSeq(response, 1, 5))
    /\ EchoedAddress(response).ok
    /\ EchoedAddress(response).n = address

\* C34 as stated: every response from which query_readings or
\* query_serial_number produces a result, and every response on which
\* query_readings switches to the 000xi path, starts with the start marker
\* "\n", "*", a 2-digit ASCII address and one ASCII command character.
C34_StartMarker ==
    (call.op \in {"query_readings", "query_serial_number"}) =>
        \A j \in 1..Len(call.script) :
            (ResponseToCommand(call, j) /\ (call.out.ok \/ SwitchedOn(call, j))) =>
                StartMarker(call.script[j].bytes)

\* C34 as the code has it: such a response has five ASCII bytes of which
\* the third and the fourth read as the client's address under int(), which
\* takes " 3" for 3 as well; the "\n" and the "*" are looked at by
\* _StartField only, so a response with the echo "4", which no schema
\* decodes, may begin with any two ASCII bytes.
C34_HeaderChecked ==
    (call.op \in {"query_readings", "query_serial_number"}) =>
        \A j \in 1..Len(call.script) :
            (ResponseToCommand(call, j) /\ (call.out.ok \/ SwitchedOn(call, j))) =>
                /\ HeaderAccepted(call.script[j].bytes, call.before.address)
                /\ ~SwitchedOn(call, j) =>
                      /\ call.script[j].bytes[1] = LF
                      /\ call.script[j].bytes[2] = STAR
                /\ SwitchedOn(call, j) => call.script[j].bytes[5] = ZERO + 4

\* query_readings went on to the sub-unit commands on the response
\* "x*034\r" and returned the record of the three units
C34_Witness ==
    /\ call.op = "query_readings"
    /\ SwitchedOn(call, 1)
    /\ call.script[1].bytes[1] = 120
    /\ call.out.ok
    /\ call.out.client._is_000xi
    /\ Commands(call.out.port) = <<ZERO, 49, 50, 51>>

\* query_readings returned a record from the standard frame "\n* 30 ..."
C34_WitnessBlank ==
    /\ call.op = "query_readings"
    /\ call.out.ok
    /\ call.script[1].bytes[3] = SP
    /\ call.before.address = 3
    /\ call.out.client._infered_standard_fields = "FIELDS_SERIES_00_02"

(***************************************************************************)
(* The field readers alone.  probe is one call of a field's read method    *)
(* (a field, a frame, the cursor and the record it is entered with) or one *)
(* call of a value field's parse method (a field and the bytes of its      *)
(* value), and then what the call gave.                                    *)
(***************************************************************************)
NoRead == ReadFail(NoError)
NoParse == NotParsed(NoError)

FieldProbe(stage, field, frame, position, dest_dict, annotate) ==
    [stage |-> stage, field |-> field, frame |-> frame, position |-> position,
     dest_dict |-> dest_dict, annotate |-> annotate, read |-> NoRead,
     parsed |-> NoParse]

\* the byte strings over a set of bytes, up to a length
RECURSIVE BytesUpTo(_, _)
BytesUpTo(bytes, length) ==
    IF length = 0 THEN {<<>>}
    ELSE LET shorter == BytesUpTo(bytes, length - 1)
         IN  shorter \cup {Append(s, b) : s \in {t \in shorter : Len(t) = length - 1},
                                          b \in bytes}

\* the values parse is called with: up to four bytes, for each class of
\* field of the bytes its parse tells apart: NUL, tab and space (what is
\* stripped), ".", "1", ":" and the cos-phi code "c" (what a value is
\* written with) and a byte that is not ASCII
MaxValueLen == 4
ValueBytes(kind) ==
    CASE kind = "String" -> {NUL, 9, SP, ZERO + 1, 255}
      [] kind = "Int" -> {SP, DOT, ZERO + 1, 255}
      [] kind = "Float" -> {SP, DOT, ZERO + 1, 99, 255}
      [] kind = "CosPhi" -> {DOT, ZERO + 1, 99, 255}
      [] kind = "Duration" -> {SP, ZERO + 1, COLON, 99, 255}
Values(kind) == BytesUpTo(ValueBytes(kind), MaxValueLen)

\* the value fields parse is called on: one of each class, the float field
\* without a precision and with the precisions 1 and 2 of the legacy schemas
ParsedFields ==
    {_StringField("value", NoneInt), _IntField("value", NoneInt, "", ""),
     _FloatField("value", NoneInt, NoneInt, "", ""), _FloatField("value", NoneInt, 1, "", ""),
     _FloatField("value", NoneInt, 2, "", ""), _CosPhiField("value"),
     _DurationField("value", NoneInt)}

\* the frames the layout of a value field is read from: up to four bytes of
\* space, "1" and "x", entered at every position up to their end
MaxFrameLen == 4
LayoutBytes == {SP, ZERO + 1, 120}
LayoutFrames == BytesUpTo(LayoutBytes, MaxFrameLen)

\* the value fields whose layout is read: variable and of the lengths 1 to 3
MaxFieldLen == 3
LayoutFields ==
    {_StringField("value", length) : length \in {NoneInt} \cup 1..MaxFieldLen}
AnnotatedFields == {_IntField("value", NoneInt, "W", "Power")}

\* the generic envelope with the subfields of a type in the place of the
\* payload field: the fields in the order they are read
Flattened(type) ==
    SubSeq(BASE_FIELDS_GENERIC, 1, 4) \o _resolve_subfields(type) \o <<_CrcAndStopField>>

\* the frames of the fifth model group (3.3.5): the envelope of a type of
\* the group with 17 elements and the status 4, the AC power written with a
\* decimal and the DC power as given, "4760" or "4760.5"
Type87N13 == <<56, 55, 78, 49, 51>>
DcPower335 == <<52, 55, 54, 48>>
DcPowerDecimal335 == <<52, 55, 54, 48, 46, 53>>
GenericTail335(dc_power) ==
    <<32,52,32,32,53,54,48,46,48,32,32,56,46,53,48,32,32,50,51,49,46,49,32,32,54,46,56,48,
      32,32,50,51,52,46,49,32,32,54,46,55,57,32,32,50,51,52,46,52,32,32,54,46,56,49,
      32,32>> \o dc_power \o
    <<32,32,52,54,57,48,46,53,32,32,53,48,46,48,49,
      32,48,46,57,57,53,105,32,32,52,49,46,50,32,32,50,49,54,52,48>>
GenericFrame335(address, type, dc_power) ==
    GenericFrameOf(address, GenericReading(17, type, GenericTail335(dc_power)))

\* the frames that are read field by field, each with the fields it is
\* read with
WalkedFrames ==
    UNION {{[fields |-> FIELDS_SERIES_00_02,
             frame |-> LegacyFrame("FIELDS_SERIES_00_02", a, ZERO, StandardReading)],
            [fields |-> FIELDS_SERIES_000XI,
             frame |-> LegacyFrame("FIELDS_SERIES_000XI", a, ZERO + 1,
                                   UnitReading(1, 13401))],
            [fields |-> BASE_FIELDS_GENERIC, frame |-> GenericFrame(a)],
            [fields |-> Flattened(Type3X24), frame |-> GenericFrame(a)],
            [fields |-> FIELDS_SERIAL, frame |-> SerialFrame(a)],
            [fields |-> FIELDS_SERIAL, frame |-> BlankSerialFrame(a)]} : a \in Addresses}
    \cup {[fields |-> FIELDS_SERIES_XP,
           frame |-> LegacyFrame("FIELDS_SERIES_XP", a, ZERO, r)] :
             a \in Addresses, r \in XPReadings}
    \cup {[fields |-> BASE_FIELDS_GENERIC, frame |-> GenericFrame335(3, type, DcPower335)] :
             type \in _GENERIC_SCHMEMA_335_TYPES}
    \cup UNION {{[fields |-> BASE_FIELDS_GENERIC,
                  frame |-> GenericFrame335(a, Type87N13, power)],
                 [fields |-> Flattened(Type87N13),
                  frame |-> GenericFrame335(a, Type87N13, power)]} :
                a \in Addresses, power \in {DcPower335, DcPowerDecimal335}}

\* the reads of the fields i.. of a walked frame, the loop of _parse_fields
\* being in the state st before the i-th: each field entered as the loop
\* enters it, and entered one byte further on
RECURSIVE Walk(_, _, _)
Walk(fields, i, st) ==
    IF i > Len(fields) \/ ~st.ok THEN {}
    ELSE {FieldProbe("field", fields[i], st.message, st.position + shift,
                     st.data_dict, FALSE) : shift \in {0, 1}}
         \cup Walk(fields, i + 1, ParseField(fields[i], st, FALSE))

WalkProbes ==
    UNION {Walk(walked.fields, 1,
                Parsing(TRUE, walked.frame, 0, EmptyDict, NoError, Port(<<>>),
                        NoneInt, NoneInt, 0)) :
           walked \in WalkedFrames}

LayoutProbes ==
    {FieldProbe("field", field, frame, position, EmptyDict, FALSE) :
        field \in LayoutFields, frame \in LayoutFrames, position \in 0..MaxFrameLen}
    \cup {FieldProbe("field", field, frame, position, EmptyDict, annotate) :
            field \in AnnotatedFields, frame \in LayoutFrames,
            position \in 0..MaxFrameLen, annotate \in BOOLEAN}

ValueProbes ==
    UNION {{FieldProbe("value", field, value, NoneInt, EmptyDict, FALSE) :
              value \in Values(field.kind)} : field \in ParsedFields}

FieldInit ==
    /\ client = NoClient
    /\ call = NoCall(NoClient)
    /\ probe \in WalkProbes \cup LayoutProbes \cup ValueProbes
    /\ line = "quiet"
    /\ host = NoHost

\* field.read(frame, position, dest_dict, annotate)
ReadStep ==
    /\ probe.stage = "field"
    /\ probe' = [probe EXCEPT
                    !.stage = "read",
                    !.read = Read(probe.field, probe.frame, probe.position,
                                  probe.dest_dict, probe.annotate)]
    /\ UNCHANGED <<client, call, line, host>>

\* field.parse(field_value_bytes)
ParseStep ==
    /\ probe.stage = "value"
    /\ probe' = [probe EXCEPT !.stage = "parsed",
                              !.parsed = Parse(probe.field, probe.frame)]
    /\ UNCHANGED <<client, call, line, host>>

FieldNext == ReadStep \/ ParseStep

FieldSpec == FieldInit /\ [][FieldNext]_vars

(***************************************************************************)
(* C33: the field cursor only advances.                                    *)
(***************************************************************************)
\* a read that was made and gave a result
ReadDone == probe.stage = "read" /\ probe.read.ok

\* the position returned is an int beyond the position entered at and within
\* the frame
Advanced(p) ==
    /\ p.read.pos # NoneInt
    /\ p.read.pos > p.position
    /\ p.read.pos <= Len(p.frame)

\* C33: every field variant (Start, value fields, LegacyChecksum, LegacyStop,
\* GenericPayload, CrcAndStop) that reads successfully returns a new cursor
\* position that is an integer strictly greater than the position it was
\* entered at and not greater than the frame length.
C33_CursorAdvances == ReadDone => Advanced(probe)

\* C33, what the code does: every variant but CrcAndStop returns such a
\* position; _CrcAndStopField.read ends without a return statement and gives
\* None, on a frame that ends six bytes after the position entered at.
C33_AdvancesButCrc ==
    ReadDone =>
        IF probe.field.kind = "CrcAndStop"
        THEN probe.read.pos = NoneInt /\ Len(probe.frame) = probe.position + 6
        ELSE Advanced(probe)

\* the CRC field of a generic frame is read, and succeeds
C33_Witness ==
    /\ ReadDone
    /\ probe.field.kind = "CrcAndStop"
    /\ probe.frame \in {GenericFrame(a) : a \in Addresses}

\* every other variant has read successfully
C33_WitnessStart == ReadDone /\ probe.field.kind = "Start" /\ probe.read.pos = 5
C33_WitnessValue ==
    ReadDone /\ probe.field.kind = "Float" /\ probe.field.length = NoneInt
             /\ probe.read.pos > probe.position + 2
C33_WitnessChecksum == ReadDone /\ probe.field.kind = "LegacyChecksum"
C33_WitnessStop == ReadDone /\ probe.field.kind = "LegacyStop"
C33_WitnessPayload ==
    ReadDone /\ probe.field.kind = "GenericPayload"
             /\ probe.read.pos = Len(probe.frame) - 6

(***************************************************************************)
(* C35: the layout of a value field.                                       *)
(***************************************************************************)
\* a call of read on a value field, made
ValueRead == probe.stage = "read" /\ probe.field.kind \in ValueKinds

\* the bytes of the frame counted from 1: the byte at the 0-based index i
Byte(frame, i) == frame[i + 1]

\* the indices of the non-space bytes after the delimiter, and of the spaces
\* after the first of them
RunStarts(frame, position) ==
    {i \in (position + 1)..(Len(frame) - 1) : Byte(frame, i) # SP}
SpacesAfterRun(frame, position) ==
    {j \in (position + 1)..(Len(frame) - 1) :
        /\ Byte(frame, j) = SP
        /\ \E i \in RunStarts(frame, position) : i < j}

\* the read with the value between the delimiter and end_pos: it gives
\* end_pos and stores the parsed value, or fails as the parse fails
ReadsValueTo(p, end_pos) ==
    LET parsed == Parse(p.field, SubSeq(p.frame, p.position + 2, end_pos))
    IN  IF parsed.ok
        THEN /\ p.read.ok
             /\ p.read.pos = end_pos
             /\ HasKey(p.read.dict, p.field.name)
             /\ Get(p.read.dict, p.field.name) = Stored(p.field, parsed.v, p.annotate)
        ELSE ~p.read.ok /\ p.read.err = parsed.err

\* C35: the byte at the entry position must be a space, otherwise the read
\* fails; a fixed-length field of length L needs L+1 remaining bytes (checked
\* before the delimiter) and returns position+1+L; a variable-length field
\* ends at the first space that follows the first run of non-space bytes,
\* returns that space's index as the new position, takes the bytes from
\* position+1 up to it as its value, and fails if the frame ends before such
\* a space.
C35_ValueLayout ==
    ValueRead =>
        LET frame == probe.frame
            position == probe.position
            length == probe.field.length
            remaining == Len(frame) - position
        IN  IF remaining < (IF length = NoneInt THEN 2 ELSE length + 1)
            THEN ~probe.read.ok /\ probe.read.err = EndOfFrame
            ELSE IF Byte(frame, position) # SP
            THEN ~probe.read.ok
                 /\ probe.read.err = ExpectedChar(SP, Byte(frame, position))
            ELSE IF length # NoneInt
            THEN ReadsValueTo(probe, position + 1 + length)
            ELSE IF SpacesAfterRun(frame, position) = {}
            THEN ~probe.read.ok
                 /\ probe.read.err
                      = ProtocolException("Expected ' ', got end-of-frame", <<>>)
            ELSE ReadsValueTo(probe, Least(SpacesAfterRun(frame, position)))

\* a variable-length field is read over spaces in front of its value
C35_Witness ==
    /\ ValueRead /\ probe.read.ok
    /\ probe.field.length = NoneInt
    /\ probe.read.pos > probe.position + 2
    /\ Byte(probe.frame, probe.position + 1) = SP
    /\ Byte(probe.frame, probe.read.pos - 1) # SP

\* a fixed-length field is read
C35_WitnessFixed ==
    /\ ValueRead /\ probe.read.ok
    /\ probe.field.length = 2
    /\ probe.read.pos = probe.position + 3

\* the frame is too short and the byte at the entry position is no space:
\* the length is what the read fails on
C35_WitnessShort ==
    /\ ValueRead /\ ~probe.read.ok
    /\ probe.field.length = MaxFieldLen
    /\ Len(probe.frame) = probe.position + MaxFieldLen
    /\ Byte(probe.frame, probe.position) # SP
    /\ probe.read.err = EndOfFrame

\* the frame ends inside the value of a variable-length field
C35_WitnessOpen ==
    /\ ValueRead /\ ~probe.read.ok
    /\ probe.field.length = NoneInt
    /\ Len(probe.frame) >= probe.position + 2
    /\ Byte(probe.frame, probe.position) = SP
    /\ Byte(probe.frame, Len(probe.frame) - 1) # SP
    /\ probe.read.err.exc = "ProtocolException"

(***************************************************************************)
(* C36: the value of a String field.                                       *)
(***************************************************************************)
\* a call of parse on a field of a kind, made
ParseDone(kind) == probe.stage = "parsed" /\ probe.field.kind = kind

SevenBit(bytes) == \A i \in 1..Len(bytes) : bytes[i] < 128

\* the index of the first byte that is kept: behind the leading NUL bytes
\* and the whitespace that follows them
TextStart(bytes) ==
    LET text == {i \in 1..(Len(bytes) + 1) : \A j \in 1..(i - 1) : bytes[j] = NUL}
        first == CHOOSE i \in text :
                    /\ i = Len(bytes) + 1 \/ bytes[i] # NUL
                    /\ \A j \in text : j <= i
    IN  Least({i \in first..(Len(bytes) + 1) :
                  /\ \A j \in first..(i - 1) : bytes[j] \in WhiteSpace
                  /\ i = Len(bytes) + 1 \/ bytes[i] \notin WhiteSpace})

\* the bytes without the leading NUL bytes and the leading whitespace
LeadingRemoved(bytes) == SubSeq(bytes, TextStart(bytes), Len(bytes))

\* the same without the trailing whitespace
BothSidesRemoved(bytes) ==
    LET kept == {i \in TextStart(bytes)..Len(bytes) : bytes[i] \notin WhiteSpace}
    IN  IF kept = {} THEN <<>>
        ELSE SubSeq(bytes, TextStart(bytes), CHOOSE i \in kept : \A j \in kept : j <= i)

\* C36: a String field's value is its raw bytes with leading null bytes
\* removed and both leading and trailing whitespace removed; the read fails
\* if the bytes are not 7-bit ASCII.
C36_StringTrimmed ==
    ParseDone("String") =>
        IF SevenBit(probe.frame)
        THEN probe.parsed.ok /\ probe.parsed.v = StrV(BothSidesRemoved(probe.frame))
        ELSE ~probe.parsed.ok /\ probe.parsed.err.exc = "ProtocolException"

\* C36, what the code does: the leading null bytes and then the leading
\* whitespace are removed and nothing else, so trailing whitespace stays in
\* the value; bytes that are not 7-bit ASCII fail.
C36_LeadingOnly ==
    ParseDone("String") =>
        IF SevenBit(probe.frame)
        THEN probe.parsed.ok /\ probe.parsed.v = StrV(LeadingRemoved(probe.frame))
        ELSE /\ ~probe.parsed.ok
             /\ probe.parsed.err = ProtocolException("Expected ASCII characters", <<>>)

\* "\0 1 " is parsed: the value is "1 ", with the blank behind it
C36_Witness ==
    /\ ParseDone("String")
    /\ probe.frame = <<NUL, SP, ZERO + 1, SP>>
    /\ probe.parsed.ok
    /\ probe.parsed.v = StrV(<<ZERO + 1, SP>>)

\* a value with a byte that is not ASCII fails
C36_WitnessNotAscii ==
    /\ ParseDone("String")
    /\ ~SevenBit(probe.frame)
    /\ ~probe.parsed.ok

(***************************************************************************)
(* C37: the decimal places of a Float field.                               *)
(***************************************************************************)
\* the text of a numeric field: the decoded bytes without the whitespace in
\* front of them
TextOf(bytes) ==
    LET starts == {i \in 1..(Len(bytes) + 1) :
                      /\ \A j \in 1..(i - 1) : bytes[j] \in WhiteSpace
                      /\ i = Len(bytes) + 1 \/ bytes[i] \notin WhiteSpace}
    IN  SubSeq(bytes, Least(starts), Len(bytes))

\* the decimal point of a text is not exactly p characters before its end
Misplaced(text, p) == Len(text) < p + 2 \/ text[Len(text) - p] # DOT

DecimalPlacesError(p) == ProtocolException("Expected decimal places", <<p>>)
FloatError == ProtocolException("Expected float", <<>>)

\* the same value parsed by a Float field without a precision
Unchecked(bytes) == Parse(_FloatField("value", NoneInt, NoneInt, "", ""), bytes)

\* C37: a Float field with a precision p fails with a decimal-places error
\* whenever the decimal point of its text (the decoded value without the
\* whitespace in front of it) is not exactly p characters before the end,
\* including text shorter than p+2 characters, and this check is made before
\* the numeric conversion: the error is the decimal-places error also for
\* text that is no number.  With the point in its place the field gives what
\* a Float field without precision gives, and that field never fails with a
\* decimal-places error.  A value that is not ASCII has no text and fails
\* with the float error.
C37_PrecisionChecked ==
    ParseDone("Float") =>
        LET p == probe.field.precision
            text == TextOf(probe.frame)
        IN  IF ~SevenBit(probe.frame)
            THEN ~probe.parsed.ok /\ probe.parsed.err = FloatError
            ELSE IF p # NoneInt /\ Misplaced(text, p)
            THEN ~probe.parsed.ok /\ probe.parsed.err = DecimalPlacesError(p)
            ELSE /\ probe.parsed = Unchecked(probe.frame)
                 /\ probe.parsed.ok \/ probe.parsed.err = FloatError

\* a text that is no number and has no point in the place: "c1" with the
\* precision 1 fails on the decimal places
C37_Witness ==
    /\ ParseDone("Float")
    /\ probe.field.precision = 1
    /\ probe.frame = <<SP, 99, ZERO + 1>>
    /\ ~PyFloat(TextOf(probe.frame)).ok
    /\ probe.parsed.err = DecimalPlacesError(1)

\* a number without the point in the place fails
C37_WitnessNumber ==
    /\ ParseDone("Float")
    /\ probe.field.precision = 2
    /\ probe.frame = <<ZERO + 1, ZERO + 1, DOT, ZERO + 1>>
    /\ probe.parsed.err = DecimalPlacesError(2)

\* the same number is parsed by the field without precision: 11.1
C37_WitnessUnchecked ==
    /\ ParseDone("Float")
    /\ probe.field.precision = NoneInt
    /\ probe.frame = <<ZERO + 1, ZERO + 1, DOT, ZERO + 1>>
    /\ probe.parsed = Parsed(FloatV(111, 1))

\* a number with the point in the place is parsed: " 1.11" is 1.11
C37_WitnessPlaced ==
    /\ ParseDone("Float")
    /\ probe.field.precision = 2
    /\ probe.frame = <<ZERO + 1, DOT, ZERO + 1, ZERO + 1>>
    /\ probe.parsed = Parsed(FloatV(111, 2))

\* the point is in the place and the text is no number: "c.1" fails on the
\* conversion
C37_WitnessNoNumber ==
    /\ ParseDone("Float")
    /\ probe.field.precision = 1
    /\ probe.frame = <<99, DOT, ZERO + 1>>
    /\ probe.parsed.err = FloatError

(***************************************************************************)
(* C38: the mode code of a cos-phi field.                                  *)
(***************************************************************************)
\* "c", "i", "o"
ModeCodes == {99, 105, 111}

\* the value ends with a mode code
Coded(bytes) == bytes # <<>> /\ bytes[Len(bytes)] \in ModeCodes

\* the value without its last byte
Front(bytes) == SubSeq(bytes, 1, Len(bytes) - 1)

\* C38: a cos-phi field is accepted only if its last byte is one of the
\* three mode codes 'c', 'i', 'o'; that byte is removed before the numeric
\* parse (the result is that of the Float field on the bytes in front of
\* it), and any other last byte, or an empty value, fails with a protocol
\* error before the numeric parse is tried (whatever the bytes in front are).
C38_ModeCode ==
    ParseDone("CosPhi") =>
        IF Coded(probe.frame)
        THEN probe.parsed = Unchecked(Front(probe.frame))
        ELSE /\ ~probe.parsed.ok
             /\ probe.parsed.err = ProtocolException("Expected c, i or o", <<>>)

\* "1.1c" is accepted as 1.1
C38_Witness ==
    /\ ParseDone("CosPhi")
    /\ probe.frame = <<ZERO + 1, DOT, ZERO + 1, 99>>
    /\ probe.parsed = Parsed(FloatV(11, 1))

\* the cos phi of the generic frame of the tests is read: 0.735 with the
\* code "i"
C38_WitnessFrame ==
    /\ ReadDone
    /\ probe.field.kind = "CosPhi"
    /\ Get(probe.read.dict, probe.field.name) = FloatV(735, 3)
    /\ Byte(probe.frame, probe.read.pos - 1) = 105

\* a number without a code fails on the code
C38_WitnessNoCode ==
    /\ ParseDone("CosPhi")
    /\ probe.frame = <<ZERO + 1, DOT, ZERO + 1>>
    /\ probe.parsed.err = ProtocolException("Expected c, i or o", <<>>)

\* the empty value fails on the code
C38_WitnessEmpty ==
    /\ ParseDone("CosPhi")
    /\ probe.frame = <<>>
    /\ probe.parsed.err = ProtocolException("Expected c, i or o", <<>>)

\* a code behind bytes that are no number fails on the number
C38_WitnessNoNumber ==
    /\ ParseDone("CosPhi")
    /\ probe.frame = <<DOT, 99>>
    /\ probe.parsed.err = FloatError

(***************************************************************************)
(* C39: the sub-schema of the fifth model group.                           *)
(***************************************************************************)
\* the payload field is read in a frame of a type of the fifth group
PayloadRead335 ==
    /\ probe.stage = "read"
    /\ probe.field.kind = "GenericPayload"
    /\ HasKey(probe.dest_dict, "inverter_type")
    /\ Get(probe.dest_dict, "inverter_type").s \in _GENERIC_SCHMEMA_335_TYPES

\* the names of a sequence of fields
NamesOf(fields) == [i \in 1..Len(fields) |-> fields[i].name]

\* one DC pair, the three AC phases, the two powers, the AC frequency, and
\* cos phi, temperature and daily yield
Names335 ==
    <<"dc_voltage", "dc_current", "ac_phase1_voltage", "ac_phase1_current",
      "ac_phase2_voltage", "ac_phase2_current", "ac_phase3_voltage", "ac_phase3_current",
      "dc_power", "ac_power", "ac_frequency", "cos_phi", "device_temperature",
      "daily_yield">>

\* the classes of the fields of Names335, with that of dc_power as given
Kinds335(dc_power) ==
    <<"Float", "Float", "Float", "Float", "Float", "Float", "Float", "Float",
      dc_power, "Float", "Float", "CosPhi", "Float", "Int">>

\* the payload read with a sub-schema of these names and classes: the
\* fields are resolved so, and a record that is returned has the keys in this
\* order behind those of the envelope, each value of its field's type
ResolvedAs(probed, kinds) ==
    LET type == Get(probed.dest_dict, "inverter_type").s
        fields == _resolve_subfields(type)
        record == probed.read.dict
        n == Len(probed.dest_dict)
    IN  /\ NamesOf(fields) = Names335
        /\ [i \in 1..Len(fields) |-> fields[i].kind] = kinds
        /\ probed.read.ok =>
              /\ Keys(record) = Keys(probed.dest_dict) \o Names335
              /\ \A i \in 1..Len(Names335) :
                    record[n + i].value.t = (IF kinds[i] = "Int" THEN "int" ELSE "float")

\* C39: for inverter types of the fifth model group, the resolved sub-schema
\* is the single DC-pair layout in which both dc_power and ac_power are
\* floating-point (not integer) fields and an ac_frequency field is present
\* between the power fields and the cos-phi/temperature/daily-yield fields.
C39_BothPowersFloat == PayloadRead335 => ResolvedAs(probe, Kinds335("Float"))

\* C39, what the code does: the layout is the single DC pair with ac_power a
\* floating-point field and ac_frequency between the powers and cos phi, and
\* dc_power is an integer field: a DC power written with decimals fails
\* with "Expected integer".
C39_DcPowerInteger ==
    PayloadRead335 =>
        /\ ResolvedAs(probe, Kinds335("Int"))
        /\ probe.read.ok \/ probe.read.err = ProtocolException("Expected integer", <<>>)

\* a frame of the type 87N13 with the DC power "4760" and the AC power
\* "4690.5" is read: 4760, 4690.5 and the frequency 50.01
C39_Witness ==
    /\ PayloadRead335
    /\ probe.read.ok
    /\ Get(probe.dest_dict, "inverter_type").s = Type87N13
    /\ Get(probe.read.dict, "dc_power") = IntV(4760)
    /\ Get(probe.read.dict, "ac_power") = FloatV(46905, 1)
    /\ Get(probe.read.dict, "ac_frequency") = FloatV(5001, 2)

\* the same frame with the DC power "4760.5" is not read
C39_WitnessDecimal ==
    /\ PayloadRead335
    /\ ~probe.read.ok
    /\ probe.read.err = ProtocolException("Expected integer", <<>>)

(***************************************************************************)
(* C40: the value of a Duration field.                                     *)
(***************************************************************************)
\* the hours and the minutes of a value with the colon in its place: the
\* text in front of the colon and the two characters behind it, under int()
HoursOf(bytes) == PyInt(SubSeq(TextOf(bytes), 1, Len(TextOf(bytes)) - 3))
MinutesOf(bytes) ==
    PyInt(SubSeq(TextOf(bytes), Len(TextOf(bytes)) - 1, Len(TextOf(bytes))))

\* a value of hours, a colon three bytes before the end, and minutes
WellFormedDuration(bytes) ==
    /\ Len(bytes) >= 3
    /\ bytes[Len(bytes) - 2] = COLON
    /\ SevenBit(bytes)
    /\ HoursOf(bytes).ok
    /\ MinutesOf(bytes).ok

\* C40: a Duration field converts 'hours:minutes' to 60*hours+minutes and
\* fails with a decode (protocol) error on every malformed input: a colon
\* that is not exactly 3 bytes from the end, a value shorter than 3 bytes, or
\* non-numeric hour or minute parts.
C40_MalformedIsProtocolError ==
    ParseDone("Duration") =>
        IF WellFormedDuration(probe.frame)
        THEN probe.parsed
                = Parsed(IntV(60 * HoursOf(probe.frame).n + MinutesOf(probe.frame).n))
        ELSE ~probe.parsed.ok /\ probe.parsed.err.exc = "ProtocolException"

\* C40, what the code does: a well-formed value gives 60*hours+minutes; a
\* value of fewer than 3 bytes fails with IndexError (the colon is looked for
\* at field_value_bytes[-3] before anything else), every other malformed
\* value with ProtocolException.
C40_ShortIsIndexError ==
    ParseDone("Duration") =>
        IF WellFormedDuration(probe.frame)
        THEN probe.parsed
                = Parsed(IntV(60 * HoursOf(probe.frame).n + MinutesOf(probe.frame).n))
        ELSE /\ ~probe.parsed.ok
             /\ probe.parsed.err.exc
                  = (IF Len(probe.frame) < 3 THEN "IndexError" ELSE "ProtocolException")

\* the value "11" fails with IndexError
C40_Witness ==
    /\ ParseDone("Duration")
    /\ probe.frame = <<ZERO + 1, ZERO + 1>>
    /\ ~probe.parsed.ok
    /\ probe.parsed.err = OtherException("IndexError")

\* "1:11" is 71 minutes
C40_WitnessMinutes ==
    /\ ParseDone("Duration")
    /\ probe.frame = <<ZERO + 1, COLON, ZERO + 1, ZERO + 1>>
    /\ probe.parsed = Parsed(IntV(71))

\* the colon is not three bytes from the end
C40_WitnessColon ==
    /\ ParseDone("Duration")
    /\ probe.frame = <<ZERO + 1, ZERO + 1, COLON, ZERO + 1>>
    /\ probe.parsed.err = ExpectedChar(COLON, ZERO + 1)

\* the hours are no number
C40_WitnessHours ==
    /\ ParseDone("Duration")
    /\ probe.frame = <<99, COLON, ZERO + 1, ZERO + 1>>
    /\ probe.parsed.err = ProtocolException("Expected duration", <<>>)

=============================================================================
